---- MODULE Spec2Model ----
(***************************************************************************)
(* USB-Blaster JTAG driver (src/jtag/drivers/usb_blaster/usb_blaster.c).   *)
(*                                                                         *)
(* The driver state is the static struct ublast_info (pin levels, the 64   *)
(* byte write buffer and its fill index), the TAP state recorded by the    *)
(* host (tap_get_state / tap_set_state) and the position of the caller in  *)
(* ublast_execute_queue.  Every command of the queue is one action; the    *)
(* bytes it queues, the flushes, the transport writes and the transport    *)
(* reads it performs are recorded in io, the trace of the last operation.  *)
(* probe is the TAP on the other side of the cable: it follows the TMS     *)
(* level at every TCK rising edge of the queued byte stream.               *)
(***************************************************************************)
EXTENDS Integers, Sequences, FiniteSets, TLC

VARIABLES info, tap, probe, tr, io, pc, ncmd, px

vars == <<info, tap, probe, tr, io, pc, ncmd, px>>

(***************************************************************************)
(* Bounds of the model.                                                    *)
(***************************************************************************)
\* commands executed in one session
MaxCmds == 2

\* primitives called in one debug session
MaxCalls == 2

\* elements moved by one memory primitive, besides a read of BLOCK + 1 words
MaxWords == 1

\* accesses a target that does not execute the stub presents to one call
MaxRogue == 2

\* instructions the target executes from its own memory between two
\* accesses to dmseg
MaxRamSteps == 40

(***************************************************************************)
(* Program constants.                                                      *)
(***************************************************************************)
BUF_LEN == 64

TCK == 1
TMS == 2
NCE == 4
NCS == 8
TDI == 16
LED == 32
READ == 64
SHMODE == 128
READ_TDO == 1

NO_TAP_SHIFT == 0
TAP_SHIFT == 1

ERROR_OK == "ERROR_OK"
ERROR_JTAG_DEVICE_ERROR == "ERROR_JTAG_DEVICE_ERROR"

ERROR_COMMAND_SYNTAX_ERROR == "ERROR_COMMAND_SYNTAX_ERROR"

Min(a, b) == IF a < b THEN a ELSE b

Max(a, b) == IF a > b THEN a ELSE b

DIV_ROUND_UP(m, n) == (m + n - 1) \div n

RECURSIVE Pow2(_)
Pow2(n) == IF n = 0 THEN 1 ELSE 2 * Pow2(n - 1)

\* bit i of the non-negative integer v
Bit(v, i) == (v \div Pow2(i)) % 2

\* v & mask != 0 for a single-bit mask
HasBit(v, mask) == (v \div mask) % 2 = 1

(***************************************************************************)
(* The TAP state machine of the host (IEEE 1149.1).                        *)
(***************************************************************************)
StableStates == {"RESET", "IDLE", "DRSHIFT", "DRPAUSE", "IRSHIFT", "IRPAUSE"}

TapStates == StableStates \cup
    {"DRSELECT", "DRCAPTURE", "DREXIT1", "DREXIT2", "DRUPDATE",
     "IRSELECT", "IRCAPTURE", "IREXIT1", "IREXIT2", "IRUPDATE"}

tap_state_transition(s, tms) ==
    CASE s = "RESET"     -> IF tms THEN "RESET"    ELSE "IDLE"
      [] s = "IDLE"      -> IF tms THEN "DRSELECT" ELSE "IDLE"
      [] s = "DRSELECT"  -> IF tms THEN "IRSELECT" ELSE "DRCAPTURE"
      [] s = "DRCAPTURE" -> IF tms THEN "DREXIT1"  ELSE "DRSHIFT"
      [] s = "DRSHIFT"   -> IF tms THEN "DREXIT1"  ELSE "DRSHIFT"
      [] s = "DREXIT1"   -> IF tms THEN "DRUPDATE" ELSE "DRPAUSE"
      [] s = "DRPAUSE"   -> IF tms THEN "DREXIT2"  ELSE "DRPAUSE"
      [] s = "DREXIT2"   -> IF tms THEN "DRUPDATE" ELSE "DRSHIFT"
      [] s = "DRUPDATE"  -> IF tms THEN "DRSELECT" ELSE "IDLE"
      [] s = "IRSELECT"  -> IF tms THEN "RESET"    ELSE "IRCAPTURE"
      [] s = "IRCAPTURE" -> IF tms THEN "IREXIT1"  ELSE "IRSHIFT"
      [] s = "IRSHIFT"   -> IF tms THEN "IREXIT1"  ELSE "IRSHIFT"
      [] s = "IREXIT1"   -> IF tms THEN "IRUPDATE" ELSE "IRPAUSE"
      [] s = "IRPAUSE"   -> IF tms THEN "IREXIT2"  ELSE "IRPAUSE"
      [] s = "IREXIT2"   -> IF tms THEN "IRUPDATE" ELSE "IRSHIFT"
      [] s = "IRUPDATE"  -> IF tms THEN "DRSELECT" ELSE "IDLE"

\* the TMS levels, in time order, that lead from one stable state to another
TmsPath(from, to) ==
    IF to = "RESET" THEN <<1, 1, 1, 1, 1>>
    ELSE IF to = "IDLE" THEN
        (IF from \in {"RESET", "IDLE"} THEN <<0>> ELSE <<1, 1, 0>>)
    ELSE IF to = "DRSHIFT" THEN
        (CASE from = "RESET" -> <<0, 1, 0, 0>>
           [] from = "IDLE" -> <<1, 0, 0>>
           [] from = "DRPAUSE" -> <<1, 0>>
           [] from = "DRSHIFT" -> <<1, 1, 1, 0, 0>>
           [] OTHER -> <<1, 1, 1, 0, 0>>)
    ELSE IF to = "DRPAUSE" THEN
        (CASE from = "RESET" -> <<0, 1, 0, 1, 0>>
           [] from = "IDLE" -> <<1, 0, 1, 0>>
           [] from = "DRSHIFT" -> <<1, 0>>
           [] from = "DRPAUSE" -> <<0>>
           [] OTHER -> <<1, 1, 1, 0, 1, 0>>)
    ELSE IF to = "IRSHIFT" THEN
        (CASE from = "RESET" -> <<0, 1, 1, 0, 0>>
           [] from = "IDLE" -> <<1, 1, 0, 0>>
           [] from = "IRPAUSE" -> <<1, 0>>
           [] from = "IRSHIFT" -> <<1, 1, 1, 1, 0, 0>>
           [] OTHER -> <<1, 1, 1, 1, 0, 0>>)
    ELSE
        (CASE from = "RESET" -> <<0, 1, 1, 0, 1, 0>>
           [] from = "IDLE" -> <<1, 1, 0, 1, 0>>
           [] from = "IRSHIFT" -> <<1, 0>>
           [] from = "IRPAUSE" -> <<0>>
           [] OTHER -> <<1, 1, 1, 1, 0, 1, 0>>)

RECURSIVE BitsToNat(_)
BitsToNat(s) == IF s = <<>> THEN 0 ELSE Head(s) + 2 * BitsToNat(Tail(s))

\* the path as the host hands it over: bit i is the i-th TMS level
tap_get_tms_path(from, to) == BitsToNat(TmsPath(from, to))

tap_get_tms_path_len(from, to) == Len(TmsPath(from, to))

(***************************************************************************)
(* The probe: the TAP at the end of the cable.  It takes the queued bytes  *)
(* in order: a byte with bit 7 set is a byte-shift header and the N bytes  *)
(* after it are clocked out with eight TCK pulses each at the TMS level    *)
(* last driven; every other byte drives the pins, and a TCK that goes from *)
(* low to high moves the TAP along the TMS level of that byte.             *)
(***************************************************************************)
\* n TCK pulses at a constant TMS level (a state that maps to itself stays)
RECURSIVE TapClocks(_, _, _)
TapClocks(s, tms, n) ==
    IF n = 0 THEN s
    ELSE LET s1 == tap_state_transition(s, tms = 1)
         IN  IF s1 = s THEN s ELSE TapClocks(s1, tms, n - 1)

ProbeByte(p, v) ==
    IF p.pending > 0
    THEN [p EXCEPT !.tap = TapClocks(p.tap, p.tms, 8), !.pending = @ - 1]
    ELSE IF v >= SHMODE
    THEN [p EXCEPT !.pending = v % 64]
    ELSE [tap |-> IF p.tck = 0 /\ HasBit(v, TCK)
                  THEN tap_state_transition(p.tap, HasBit(v, TMS))
                  ELSE p.tap,
          tck |-> v % 2,
          tms |-> (v \div 2) % 2,
          pending |-> 0]

RECURSIVE ProbeRun(_, _, _)
ProbeRun(p, bytes, i) ==
    IF i > Len(bytes) THEN p
    ELSE LET q == ProbeByte(p, bytes[i])
         IN  IF q.pending >= 0 THEN ProbeRun(q, bytes, i + 1) ELSE q

\* a block of bytes: all of it payload of the burst in progress, or not
ProbeBytes(p, bytes) ==
    IF p.pending >= Len(bytes)
    THEN [p EXCEPT !.tap = TapClocks(p.tap, p.tms, 8 * Len(bytes)),
                   !.pending = @ - Len(bytes)]
    ELSE ProbeRun(p, bytes, 1)

(***************************************************************************)
(* The transport back-end: a write accepts at most wmax of the bytes it is *)
(* handed, or fails and accepts none.                                      *)
(***************************************************************************)
drv_write(m, size) ==
    IF m.wok THEN [ret |-> ERROR_OK, retlen |-> Min(size, m.wmax)]
    ELSE [ret |-> ERROR_JTAG_DEVICE_ERROR, retlen |-> 0]

ublast_buf_write(m, size) == drv_write(m, size)

\* a read returns at most rmax of the bytes asked for, or fails
drv_read(m, size) ==
    IF m.rok THEN [ret |-> ERROR_OK, retlen |-> Min(size, m.rmax)]
    ELSE [ret |-> ERROR_JTAG_DEVICE_ERROR, retlen |-> 0]

ublast_buf_read(m, size) == drv_read(m, size)

\* the j-th byte (from 0) the probe returns during one operation
TdoByte(j) == (37 * j + 11) % 256

nb_buf_remaining(m) == BUF_LEN - Len(m.buf)

(***************************************************************************)
(* ublast_flush_buffer: every write call is handed the first nb bytes of   *)
(* info.buf; calls records the size handed and the count accepted, sent    *)
(* the bytes the transport accepted.                                       *)
(***************************************************************************)
RECURSIVE FlushLoop(_, _, _)
FlushLoop(m, nb, acc) ==
    LET again(w, a) == IF w.ret = ERROR_OK /\ Len(a.calls) > 0
                       THEN FlushLoop(m, nb - w.retlen, a) ELSE a
        write(w) == again(w, [calls |-> Append(acc.calls, [size |-> nb, retlen |-> w.retlen]),
                              sent |-> acc.sent \o SubSeq(m.buf, 1, w.retlen),
                              ret |-> w.ret])
    IN  IF nb > 0 THEN write(ublast_buf_write(m, nb)) ELSE acc

\* ublast_flush_buffer leaving the buffer as it is when the write failed
ublast_flush_buffer_keep(m) ==
    LET log(r, m1) == [m1 EXCEPT !.fl = Append(@, [data |-> m.buf, calls |-> r.calls,
                                                   sent |-> r.sent, ret |-> r.ret,
                                                   bufidx |-> Len(m1.buf)])]
        reset(r) == log(r, IF r.ret = ERROR_OK THEN [m EXCEPT !.buf = <<>>] ELSE m)
    IN  reset(FlushLoop(m, Len(m.buf), [calls |-> <<>>, sent |-> <<>>, ret |-> ERROR_OK]))

\* fl records every flush: the buffer it found (data), the write calls, the
\* bytes accepted (sent) and the fill index it leaves behind (bufidx)
ublast_flush_buffer(m) ==
    LET log(r, m1) == [m1 EXCEPT !.fl = Append(@, [data |-> m.buf, calls |-> r.calls,
                                                   sent |-> r.sent, ret |-> r.ret,
                                                   bufidx |-> Len(m1.buf)])]
    IN  log(FlushLoop(m, Len(m.buf), [calls |-> <<>>, sent |-> <<>>, ret |-> ERROR_OK]),
            [m EXCEPT !.buf = <<>>])

(***************************************************************************)
(* Queueing.  Every queued byte carries the place it was queued from (k):  *)
(* tms_lo/tms_hi (ublast_clock_tms), idle (ublast_idle_clock),             *)
(* tdi_lo/tdi_hi (ublast_clock_tdi), flip_lo/flip_hi/flip_end              *)
(* (ublast_clock_tdi_flip_tms), hdr and pl (ublast_queue_tdi).             *)
(***************************************************************************)
ublast_queue_byte(m, abyte, k) ==
    LET full(m2) == IF nb_buf_remaining(m2) = 0 THEN ublast_flush_buffer(m2) ELSE m2
        put(m1, b) == full([m1 EXCEPT !.buf = Append(@, b), !.out = Append(@, b),
                                      !.peak = Max(@, Len(m1.buf) + 1),
                                      !.probe = ProbeByte(@, abyte)])
    IN  put(IF nb_buf_remaining(m) < 1 THEN ublast_flush_buffer(m) ELSE m,
            [v |-> abyte, k |-> k])

ublast_build_out(m, type) ==
    (IF m.tms = 1 THEN TMS ELSE 0) + (IF m.pin6 = 1 THEN NCE ELSE 0)
    + (IF m.pin8 = 1 THEN NCS ELSE 0) + (IF m.tdi = 1 THEN TDI ELSE 0)
    + LED + (IF type \in {"SCAN_IN", "SCAN_IO"} THEN READ ELSE 0)

ublast_clock_tms(m, tms) ==
    LET queue(m1, out) ==
            ublast_queue_byte(ublast_queue_byte(m1, out, "tms_lo"), out + TCK, "tms_hi")
        build(m1) == queue(m1, ublast_build_out(m1, "SCAN_OUT"))
    IN  build([m EXCEPT !.tms = IF tms # 0 THEN 1 ELSE 0, !.tdi = 0])

ublast_idle_clock(m) ==
    ublast_queue_byte(m, ublast_build_out(m, "SCAN_OUT"), "idle")

\* ublast_clock_tdi asking for TDO on the TCK-low byte as well
ublast_clock_tdi_readlow(m, tdi, type) ==
    LET high(m2) == ublast_queue_byte(m2, ublast_build_out(m2, type) + TCK, "tdi_hi")
        low(m1) == high(ublast_queue_byte(m1, ublast_build_out(m1, type), "tdi_lo"))
    IN  low([m EXCEPT !.tdi = IF tdi # 0 THEN 1 ELSE 0])

ublast_clock_tdi(m, tdi, type) ==
    LET high(m2) == ublast_queue_byte(m2, ublast_build_out(m2, type) + TCK, "tdi_hi")
        low(m1) == high(ublast_queue_byte(m1, ublast_build_out(m1, "SCAN_OUT"), "tdi_lo"))
    IN  low([m EXCEPT !.tdi = IF tdi # 0 THEN 1 ELSE 0])

ublast_clock_tdi_flip_tms(m, tdi, type) ==
    LET end(m3) == ublast_queue_byte(m3, ublast_build_out(m3, "SCAN_OUT"), "flip_end")
        high(m2) == end(ublast_queue_byte(m2, ublast_build_out(m2, type) + TCK, "flip_hi"))
        low(m1) == high(ublast_queue_byte(m1, ublast_build_out(m1, "SCAN_OUT"), "flip_lo"))
    IN  low([m EXCEPT !.tdi = IF tdi # 0 THEN 1 ELSE 0, !.tms = 1 - m.tms])

\* bytes is the block to copy; the overflow branch ends the process
ublast_queue_bytes(m, bytes, nb_bytes) ==
    LET full(m1) == IF nb_buf_remaining(m1) = 0 THEN ublast_flush_buffer(m1) ELSE m1
        copy(blk, call) ==
            full([m EXCEPT !.buf = @ \o blk, !.out = @ \o blk,
                           !.peak = Max(@, Len(m.buf) + nb_bytes),
                           !.qb = Append(@, call),
                           !.probe = ProbeBytes(@, SubSeq(bytes, 1, nb_bytes))])
        check(call) ==
            IF Len(m.buf) + nb_bytes > BUF_LEN
            THEN [m EXCEPT !.aborted = TRUE, !.qb = Append(@, call)]
            ELSE copy([i \in 1..nb_bytes |-> [v |-> bytes[i], k |-> "pl"]], call)
    IN  check([bufidx |-> Len(m.buf), nb_bytes |-> nb_bytes])

RECURSIVE TmsSeqLoop(_, _, _, _)
TmsSeqLoop(m, bits, nb_bits, i) ==
    LET next(m1) == IF Len(m1.buf) < BUF_LEN THEN TmsSeqLoop(m1, bits, nb_bits, i + 1) ELSE m1
    IN  IF i < nb_bits
        THEN next(ublast_clock_tms(m, Bit(bits[(i \div 8) + 1], i % 8)))
        ELSE m

ublast_tms_seq(m, bits, nb_bits) ==
    ublast_idle_clock(TmsSeqLoop(m, bits, nb_bits, 0))

ublast_tms(m, cmd) == ublast_tms_seq(m, cmd.bits, cmd.num_bits)

ublast_path_move_step(m, target) ==
    LET set(m2) == [m2 EXCEPT !.tap = target]
        one(m1) == set(IF tap_state_transition(m1.tap, TRUE) = target
                       THEN ublast_clock_tms(m1, 1) ELSE m1)
    IN  one(IF tap_state_transition(m.tap, FALSE) = target
            THEN ublast_clock_tms(m, 0) ELSE m)

RECURSIVE PathMoveLoop(_, _, _)
PathMoveLoop(m, path, i) ==
    LET next(m1) == IF Len(m1.buf) < BUF_LEN THEN PathMoveLoop(m1, path, i + 1) ELSE m1
    IN  IF i <= Len(path) THEN next(ublast_path_move_step(m, path[i])) ELSE m

ublast_path_move(m, cmd) == ublast_idle_clock(PathMoveLoop(m, cmd.path, 1))

ublast_state_move(m, state) ==
    IF m.tap = state THEN m
    ELSE [ublast_tms_seq(m, <<tap_get_tms_path(m.tap, state)>>,
                         tap_get_tms_path_len(m.tap, state)) EXCEPT !.tap = state]

ublast_reset(m, trst, srst) ==
    IF trst = 1 THEN [m EXCEPT !.tap = "RESET"] ELSE m

(***************************************************************************)
(* TDO readback.  rd records every call of a read function: the count      *)
(* asked for, the transport reads made, and how many bytes had been queued *)
(* (nout) and how many flushes made (nfl) when the transport was read.     *)
(***************************************************************************)
RECURSIVE ReadLoop(_, _, _)
ReadLoop(m, nb_bytes, acc) ==
    LET again(r, a) == IF r.ret = ERROR_OK /\ Len(a.calls) > 0
                       THEN ReadLoop(m, nb_bytes - r.retlen, a) ELSE a
        read(r) == again(r, [calls |-> Append(acc.calls,
                                              [size |-> nb_bytes, retlen |-> r.retlen]),
                             data  |-> [j \in 1..Len(acc.data) |->
                                           IF j <= r.retlen THEN TdoByte(acc.rpos + j - 1)
                                           ELSE acc.data[j]],
                             rpos  |-> acc.rpos + r.retlen,
                             ret   |-> r.ret])
    IN  IF nb_bytes > 0 THEN read(ublast_buf_read(m, nb_bytes)) ELSE acc

\* buf is &tdos[off]
ublast_read_byteshifted_tdos(m, off, nb_bytes) ==
    LET store(m1, r) ==
            [m1 EXCEPT !.tdos = [j \in 1..Len(m1.tdos) |->
                                    IF j > off /\ j <= off + nb_bytes THEN r.data[j - off]
                                    ELSE m1.tdos[j]],
                       !.rpos = r.rpos,
                       !.rd = Append(@, [fn |-> "byteshifted", nb |-> nb_bytes,
                                         calls |-> r.calls, ret |-> r.ret,
                                         first |-> m1.rpos, data |-> r.data,
                                         bufidx |-> Len(m1.buf), nout |-> Len(m1.out),
                                         nfl |-> Len(m1.fl)])]
        read(m1) == store(m1, ReadLoop(m1, nb_bytes,
                                       [calls |-> <<>>,
                                        data |-> SubSeq(m1.tdos, off + 1, off + nb_bytes),
                                        rpos |-> m1.rpos, ret |-> ERROR_OK]))
    IN  read(ublast_flush_buffer(m))

RECURSIVE PackBits(_, _, _)
PackBits(tmp, nb1, i) ==
    IF i < nb1
    THEN (IF HasBit(tmp[i + 1], READ_TDO) THEN Pow2(i) ELSE 0) + PackBits(tmp, nb1, i + 1)
    ELSE 0

\* ublast_read_bitbang_tdos without the flush before the read
ublast_read_bitbang_tdos_noflush(m, off, nb_bits) ==
    LET store(m1, r, new) ==
            [m1 EXCEPT !.tdos = [@ EXCEPT ![off + 1] = new],
                       !.rpos = @ + r.retlen,
                       !.rd = Append(@, [fn |-> "bitbang", nb |-> nb_bits,
                                         calls |-> <<[size |-> nb_bits, retlen |-> r.retlen]>>,
                                         ret |-> r.ret, first |-> m1.rpos, byte |-> new,
                                         bufidx |-> Len(m1.buf), nout |-> Len(m1.out),
                                         nfl |-> Len(m1.fl)])]
        pack(m1, r, old, tmp) ==
            store(m1, r, IF r.ret = ERROR_OK
                         THEN (old \div Pow2(nb_bits)) * Pow2(nb_bits) + PackBits(tmp, nb_bits, 0)
                         ELSE old)
        read(m1, r) ==
            pack(m1, r, m1.tdos[off + 1],
                 [i \in 1..8 |-> IF i <= r.retlen THEN TdoByte(m1.rpos + i - 1) ELSE m1.junk])
    IN  read(m, ublast_buf_read(m, nb_bits))

\* buf is &tdos[off]; tmp[i] is not written by a read that returns less
\* than i+1 bytes and then holds m.junk
ublast_read_bitbang_tdos(m, off, nb_bits) ==
    LET store(m1, r, new) ==
            [m1 EXCEPT !.tdos = [@ EXCEPT ![off + 1] = new],
                       !.rpos = @ + r.retlen,
                       !.rd = Append(@, [fn |-> "bitbang", nb |-> nb_bits,
                                         calls |-> <<[size |-> nb_bits, retlen |-> r.retlen]>>,
                                         ret |-> r.ret, first |-> m1.rpos, byte |-> new,
                                         bufidx |-> Len(m1.buf), nout |-> Len(m1.out),
                                         nfl |-> Len(m1.fl)])]
        pack(m1, r, old, tmp) ==
            store(m1, r, IF r.ret = ERROR_OK
                         THEN (old \div Pow2(nb_bits)) * Pow2(nb_bits) + PackBits(tmp, nb_bits, 0)
                         ELSE old)
        read(m1, r) ==
            pack(m1, r, m1.tdos[off + 1],
                 [i \in 1..8 |-> IF i <= r.retlen THEN TdoByte(m1.rpos + i - 1) ELSE m1.junk])
        flushed(m1) == read(m1, ublast_buf_read(m1, nb_bits))
    IN  flushed(ublast_flush_buffer(m))

(***************************************************************************)
(* ublast_queue_tdi                                                        *)
(***************************************************************************)
\* the burst length without the byte the header takes
ublast_queue_tdi_trans_full(nbfree, left) == Min(nbfree, left)

\* the length of the next burst: nbfree bytes are free, left bytes remain
ublast_queue_tdi_trans(nbfree, left) == Min(nbfree - 1, left)

RECURSIVE ByteShiftLoop(_, _, _, _, _, _)
ByteShiftLoop(m, bits, hasbits, nb8, read_tdos, i) ==
    LET next(m3, trans) ==
            IF Len(m3.buf) < BUF_LEN
            THEN ByteShiftLoop(m3, bits, hasbits, nb8, read_tdos, i + trans) ELSE m3
        read(m2, trans) ==
            next(IF read_tdos /\ ~m2.aborted
                 THEN ublast_read_byteshifted_tdos(m2, i, trans) ELSE m2, trans)
        burst(trans) ==
            read(ublast_queue_bytes(
                     ublast_queue_byte(m, SHMODE + (IF read_tdos THEN READ ELSE 0) + trans,
                                       "hdr"),
                     [j \in 1..trans |-> IF hasbits THEN bits[i + j] ELSE 0], trans),
                 trans)
    IN  IF i < nb8 /\ ~m.aborted
        THEN burst(ublast_queue_tdi_trans(nb_buf_remaining(m), nb8 - i))
        ELSE m

RECURSIVE BitBangLoop(_, _, _, _, _, _, _, _)
BitBangLoop(m, bits, hasbits, nb8, nb1, scan, tap_shift, i) ==
    LET next(m1) ==
            IF Len(m1.buf) < BUF_LEN
            THEN BitBangLoop(m1, bits, hasbits, nb8, nb1, scan, tap_shift, i + 1) ELSE m1
        clock(tdi) ==
            next(IF tap_shift # 0 /\ hasbits /\ i = nb1 - 1
                 THEN ublast_clock_tdi_flip_tms(m, tdi, scan)
                 ELSE ublast_clock_tdi(m, tdi, scan))
    IN  IF i < nb1
        THEN clock(IF hasbits THEN Bit(bits[nb8 + (i \div 8) + 1], i) ELSE 0)
        ELSE m

\* the split of nb_bits into byte-shift bytes and bit-bang bits
ublast_queue_tdi_nb8(nb_bits) ==
    IF nb_bits \div 8 > 0 /\ nb_bits % 8 = 0 THEN nb_bits \div 8 - 1 ELSE nb_bits \div 8

\* the bit-bang count without the eight bits taken back from byte-shift mode
ublast_queue_tdi_nb1_noborrow(nb_bits) == nb_bits % 8

ublast_queue_tdi_nb1(nb_bits) ==
    IF nb_bits \div 8 > 0 /\ nb_bits % 8 = 0 THEN 8 ELSE nb_bits % 8

ublast_queue_tdi(m, bits, hasbits, nb_bits, scan, tap_shift) ==
    LET copy(m3) ==
            ublast_idle_clock(
                IF hasbits
                THEN [m3 EXCEPT !.bits = SubSeq(m3.tdos, 1, DIV_ROUND_UP(nb_bits, 8))]
                ELSE m3)
        read(m2, nb8, nb1, read_tdos) ==
            copy(IF nb1 # 0 /\ read_tdos THEN ublast_read_bitbang_tdos(m2, nb8, nb1) ELSE m2)
        bitbang(m1, nb8, nb1, read_tdos) ==
            IF m1.aborted THEN m1
            ELSE read(BitBangLoop(m1, bits, hasbits, nb8, nb1, scan, tap_shift, 0),
                      nb8, nb1, read_tdos)
        shift(m0, nb8, nb1, read_tdos) ==
            bitbang(ByteShiftLoop(m0, bits, hasbits, nb8, read_tdos, 0), nb8, nb1, read_tdos)
    IN  shift([m EXCEPT !.tdos = [j \in 1..(nb_bits \div 8 + 1) |-> 0]],
              ublast_queue_tdi_nb8(nb_bits), ublast_queue_tdi_nb1(nb_bits),
              scan \in {"SCAN_IN", "SCAN_IO"})

ublast_runtest(m, cycles, state) ==
    LET move(m2) == IF m2.aborted THEN m2 ELSE ublast_state_move(m2, state)
    IN  move(ublast_queue_tdi(ublast_state_move(m, "IDLE"), <<>>, FALSE, cycles,
                              "SCAN_OUT", TAP_SHIFT))

ublast_stableclocks(m, cycles) ==
    ublast_queue_tdi(m, <<>>, FALSE, cycles, "SCAN_OUT", TAP_SHIFT)

ublast_scan(m, cmd) ==
    LET move(m3) ==
            [(IF cmd.end_state # "DRSHIFT"
              THEN ublast_state_move(m3, cmd.end_state) ELSE m3) EXCEPT !.ret = ERROR_OK]
        pause(m2) ==
            IF m2.aborted THEN m2
            ELSE move(IF cmd.end_state # "DRSHIFT"
                      THEN [ublast_clock_tms(m2, 0) EXCEPT
                               !.tap = IF cmd.ir_scan THEN "IRPAUSE" ELSE "DRPAUSE"]
                      ELSE m2)
        shift(m1, type, scan_bits) ==
            pause(IF cmd.end_state = "DRSHIFT"
                  THEN ublast_queue_tdi(m1, cmd.bits, TRUE, scan_bits, type, NO_TAP_SHIFT)
                  ELSE ublast_queue_tdi(m1, cmd.bits, TRUE, scan_bits, type, TAP_SHIFT))
    IN  shift(ublast_state_move(m, IF cmd.ir_scan THEN "IRSHIFT" ELSE "DRSHIFT"),
              cmd.scan, cmd.num_bits)

(***************************************************************************)
(* The driver state handed through the functions of one operation.         *)
(***************************************************************************)
NoCmd == [type |-> "none", ir_scan |-> FALSE, num_bits |-> 0, scan |-> "SCAN_OUT",
          end_state |-> "RESET", bits |-> <<>>, hasbits |-> FALSE, trst |-> 0, srst |-> 0,
          path |-> <<>>, open_ok |-> FALSE, pin_name |-> "", state |-> 0]

\* the behaviours of the transport of a session: everything is
\* accepted and returned at once, or in parts, or the write fails
FullTransport == [wmax |-> BUF_LEN, wok |-> TRUE, rmax |-> BUF_LEN, rok |-> TRUE, junk |-> 0]

Transports ==
    {FullTransport,
     [wmax |-> 24, wok |-> TRUE, rmax |-> 3, rok |-> TRUE, junk |-> 1],
     [wmax |-> BUF_LEN, wok |-> FALSE, rmax |-> BUF_LEN, rok |-> TRUE, junk |-> 0]}

Start(cmd) ==
    [pin6 |-> info.pin6, pin8 |-> info.pin8, tms |-> info.tms, tdi |-> info.tdi,
     buf |-> info.buf, drv |-> info.drv, tap |-> tap, probe |-> probe,
     wmax |-> tr.wmax, wok |-> tr.wok, rmax |-> tr.rmax, rok |-> tr.rok, junk |-> tr.junk,
     out |-> <<>>, fl |-> <<>>, rd |-> <<>>, qb |-> <<>>, raw |-> <<>>,
     peak |-> Len(info.buf), aborted |-> FALSE,
     tdos |-> <<>>, rpos |-> 0, bits |-> cmd.bits,
     cmd |-> cmd, buf0 |-> info.buf, tap0 |-> tap, probe0 |-> probe,
     ret |-> ERROR_OK]

Finish(m) ==
    /\ info' = [pin6 |-> m.pin6, pin8 |-> m.pin8, tms |-> m.tms, tdi |-> m.tdi,
                buf |-> m.buf, drv |-> m.drv]
    /\ tap' = m.tap
    /\ probe' = m.probe
    /\ tr' = tr
    /\ io' = [cmd |-> m.cmd, out |-> m.out, fl |-> m.fl, rd |-> m.rd, qb |-> m.qb,
              raw |-> m.raw, peak |-> m.peak, aborted |-> m.aborted, buf0 |-> m.buf0, tap0 |-> m.tap0,
              probe0 |-> m.probe0, bits |-> m.bits, ret |-> m.ret]
    /\ px' = px

(***************************************************************************)
(* Initial state: the zero-initialised static info, no low-level driver.   *)
(***************************************************************************)
Init ==
    /\ info = [pin6 |-> 0, pin8 |-> 0, tms |-> 0, tdi |-> 0, buf |-> <<>>, drv |-> FALSE]
    /\ tap = "RESET"
    /\ probe \in [tap : TapStates, tck : {0}, tms : {0}, pending : {0}]
    /\ tr \in Transports
    /\ io = [cmd |-> NoCmd, out |-> <<>>, fl |-> <<>>, rd |-> <<>>, qb |-> <<>>,
             raw |-> <<>>, peak |-> 0, aborted |-> FALSE, buf0 |-> <<>>, tap0 |-> "RESET", probe0 |-> probe,
             bits |-> <<>>, ret |-> ERROR_OK]
    /\ pc = "config"
    /\ ncmd = 0
    /\ px = [pos |-> "off"]

(***************************************************************************)
(* ublast_init: the low-level driver is registered, the transport opened;  *)
(* raw records the writes made outside the write buffer.  The flush loop   *)
(* runs for i = 0 only (i += BUF_LEN against the limit 128 / BUF_LEN).     *)
(* No low-level driver name is configured: the drivers are tried while     *)
(* info.drv is NULL, reg_ok says that one of them registers.               *)
(***************************************************************************)
ublast_init(m0, reg_ok, open_ok) ==
    LET reset(m1) == [ublast_tms_seq(m1, <<255>>, 5) EXCEPT !.tap = "RESET", !.ret = ERROR_OK]
        wrote(m, w) == reset([m EXCEPT !.raw = Append(@, [data |-> [i \in 1..BUF_LEN |-> 0],
                                                          size |-> BUF_LEN,
                                                          retlen |-> w.retlen,
                                                          ret |-> w.ret])])
        open(m) == IF ~m.drv THEN [m EXCEPT !.ret = ERROR_JTAG_DEVICE_ERROR]
                   ELSE IF open_ok THEN wrote(m, ublast_buf_write(m, BUF_LEN))
                   ELSE [m EXCEPT !.ret = ERROR_JTAG_DEVICE_ERROR]
    IN  open([m0 EXCEPT !.drv = @ \/ reg_ok])

UblastInit ==
    /\ pc = "config"
    /\ ~io.aborted
    /\ \E reg_ok \in BOOLEAN, open_ok \in BOOLEAN :
         LET opened == (info.drv \/ reg_ok) /\ open_ok
             m == ublast_init(Start([NoCmd EXCEPT !.type = "init", !.open_ok = opened]),
                              reg_ok, open_ok)
         IN  /\ Finish(m)
             /\ pc' = IF opened THEN "idle" ELSE "config"
    /\ ncmd' = 0

(***************************************************************************)
(* ublast_execute_queue: one action per command of the queue, and the      *)
(* flush that ends the call.                                               *)
(***************************************************************************)
\* the loop goes on while ret == ERROR_OK; ret is ERROR_OK when a call starts
InQueue ==
    /\ pc \in {"idle", "queue"}
    /\ ncmd < MaxCmds
    /\ ~io.aborted
    /\ pc = "queue" => io.ret = ERROR_OK

Step(m) ==
    /\ Finish(m)
    /\ pc' = "queue"
    /\ ncmd' = ncmd + 1

TmsLens == {2}

TmsBits == {1, 255}

\* the JTAG_TMS command that follows a scan, the first command of a session,
\* that has stayed in a Shift state is not counted, so that a command can
\* follow it
CmdTms ==
    /\ InQueue
    /\ \E n \in TmsLens, bits \in TmsBits :
         LET cmd == [NoCmd EXCEPT !.type = "JTAG_TMS", !.num_bits = n,
                                  !.bits = [i \in 1..DIV_ROUND_UP(n, 8) |-> bits]]
         IN  Finish(ublast_tms(Start(cmd), cmd))
    /\ pc' = "queue"
    /\ ncmd' = IF ncmd = 1 /\ tap \in {"DRSHIFT", "IRSHIFT"} /\ io.cmd.type = "JTAG_SCAN"
               THEN ncmd ELSE ncmd + 1

CmdReset ==
    /\ InQueue
    /\ \E r \in {<<1, 0>>, <<0, 1>>} :
         LET cmd == [NoCmd EXCEPT !.type = "JTAG_RESET", !.trst = r[1], !.srst = r[2]]
         IN  Step(ublast_reset(Start(cmd), r[1], r[2]))

RuntestCycles == {0, 9}

CmdRuntest ==
    /\ InQueue
    /\ \E cycles \in RuntestCycles, end_state \in {"IDLE", "DRPAUSE"} :
         LET cmd == [NoCmd EXCEPT !.type = "JTAG_RUNTEST", !.num_bits = cycles,
                                  !.end_state = end_state]
         IN  Step(ublast_runtest(Start(cmd), cycles, end_state))

\* 385 cycles after ublast_init leave 63 bytes in the buffer; 520 cycles are
\* more than one burst can carry
StableCycles == {0, 9, 385, 520}

CmdStableClocks ==
    /\ InQueue
    /\ \E cycles \in StableCycles :
         LET cmd == [NoCmd EXCEPT !.type = "JTAG_STABLECLOCKS", !.num_bits = cycles]
         IN  Step(ublast_stableclocks(Start(cmd), cycles))

CmdStateMove ==
    /\ InQueue
    /\ \E end_state \in {"RESET", "IDLE"} :
         LET cmd == [NoCmd EXCEPT !.type = "JTAG_TLR_RESET", !.end_state = end_state]
         IN  Step(ublast_state_move(Start(cmd), end_state))

\* the paths the host accepts: every state follows from the one before it
\* and the last one is stable
Succ(s) == {tap_state_transition(s, FALSE), tap_state_transition(s, TRUE)}

Paths(s) ==
    {p \in {<<a>> : a \in Succ(s)}
           \cup UNION {{<<a, b>> : b \in Succ(a)} : a \in Succ(s)} :
        p[Len(p)] \in StableStates}

CmdPathMove ==
    /\ InQueue
    /\ \E path \in Paths(tap) :
         LET cmd == [NoCmd EXCEPT !.type = "JTAG_PATHMOVE", !.path = path]
         IN  Step(ublast_path_move(Start(cmd), cmd))

\* the scans: <<ir_scan, end_state, num_bits, direction>>
ScanCmds ==
    {<<FALSE, "DRPAUSE", 4, "SCAN_IO">>,
     <<FALSE, "DRPAUSE", 16, "SCAN_IN">>,
     <<FALSE, "DRPAUSE", 40, "SCAN_IN">>,
     <<FALSE, "DRSHIFT", 16, "SCAN_IO">>,
     <<FALSE, "DRSHIFT", 0, "SCAN_OUT">>,
     <<TRUE, "DRSHIFT", 16, "SCAN_OUT">>,
     <<TRUE, "IRPAUSE", 0, "SCAN_OUT">>}

\* the buffer jtag_build_buffer hands over for a scan of n bits
ScanData(n) == [j \in 1..DIV_ROUND_UP(n, 8) |-> (91 + 50 * j) % 256]

CmdScan ==
    /\ InQueue
    /\ \E sc \in ScanCmds :
         LET cmd == [NoCmd EXCEPT !.type = "JTAG_SCAN", !.ir_scan = sc[1], !.num_bits = sc[3],
                                  !.scan = sc[4], !.end_state = sc[2],
                                  !.bits = ScanData(sc[3]), !.hasbits = TRUE]
         IN  Step(ublast_scan(Start(cmd), cmd))

\* lines 692-696: jtag_sleep blocks the host; nothing is queued or written
ublast_msleep(m, ms) == m

\* lines 725-727
CmdSleep ==
    /\ InQueue
    /\ LET cmd == [NoCmd EXCEPT !.type = "JTAG_SLEEP", !.num_bits = 1000]
       IN  Step(ublast_msleep(Start(cmd), 1000))

EndQueue ==
    /\ pc \in {"idle", "queue"}
    /\ ~io.aborted
    /\ Finish(ublast_flush_buffer(Start([NoCmd EXCEPT !.type = "end"])))
    /\ pc' = "idle"
    /\ ncmd' = ncmd

\* lines 813-820: the zero byte goes to the transport past the write
\* buffer, then the device is closed
ublast_quit(m) ==
    LET wrote(w) == [m EXCEPT !.raw = Append(@, [data |-> <<0>>, size |-> 1,
                                                 retlen |-> w.retlen, ret |-> w.ret]),
                              !.probe = IF w.retlen = 1 THEN ProbeByte(@, 0) ELSE @,
                              !.ret = ERROR_OK]
    IN  wrote(ublast_buf_write(m, 1))

UblastQuit ==
    /\ pc = "idle"
    /\ ~io.aborted
    /\ Finish(ublast_quit(Start([NoCmd EXCEPT !.type = "quit"])))
    /\ pc' = "quit"
    /\ ncmd' = ncmd

Next ==
    \/ UblastInit
    \/ CmdReset
    \/ CmdRuntest
    \/ CmdStableClocks
    \/ CmdStateMove
    \/ CmdPathMove
    \/ CmdTms
    \/ CmdSleep
    \/ CmdScan
    \/ EndQueue
    \/ UblastQuit

Spec == Init /\ [][Next]_vars

(***************************************************************************)
(* The pin command (COMMAND_ANY): accepted before and after ublast_init,   *)
(* between two calls of ublast_execute_queue.  PinSession is the session   *)
(* of ublast_init attempts and pin commands.                               *)
(***************************************************************************)
ublast_handle_pin_command(m, pin_name, state) ==
    LET send(m1) ==
            IF m1.drv
            THEN [ublast_flush_buffer(
                      ublast_queue_byte(m1, ublast_build_out(m1, "SCAN_OUT"), "pin"))
                     EXCEPT !.ret = ERROR_OK]
            ELSE [m1 EXCEPT !.ret = ERROR_OK]
    IN  IF state # 0 /\ state # 1 THEN [m EXCEPT !.ret = ERROR_COMMAND_SYNTAX_ERROR]
        ELSE IF pin_name = "pin6" THEN send([m EXCEPT !.pin6 = state])
        ELSE IF pin_name = "pin8" THEN send([m EXCEPT !.pin8 = state])
        ELSE [m EXCEPT !.ret = ERROR_COMMAND_SYNTAX_ERROR]

PinNames == {"pin6", "pin8", "pin7"}

PinStates == {0, 1, 2}

CmdPin ==
    /\ pc \in {"config", "idle"}
    /\ \E pin_name \in PinNames, state \in PinStates :
         LET cmd == [NoCmd EXCEPT !.type = "pin", !.pin_name = pin_name, !.state = state]
         IN  Finish(ublast_handle_pin_command(Start(cmd), pin_name, state))
    /\ pc' = pc
    /\ ncmd' = ncmd

NextPin ==
    \/ UblastInit
    \/ CmdPin

SpecPin == Init /\ [][NextPin]_vars

(***************************************************************************)
(* MIPS32 EJTAG processor access (mips32_pracc.c, mips32.h).               *)
(*                                                                         *)
(* A 32-bit word is the pair <<upper half, lower half>> of its 16-bit      *)
(* halves.  The stubs are the arrays of instruction words the source       *)
(* builds with the MIPS32_* macros; the target decodes the words it is     *)
(* served.  px is the state of one debug session: the host's position in   *)
(* a primitive, the context of mips32_pracc_exec, the target processor     *)
(* and the scans issued.                                                   *)
(***************************************************************************)
W16 == 65536

UPPER16(w) == w[1]

LOWER16(w) == w[2]

NEG16(v) == (W16 - v) % W16

\* w + n modulo 2^32, n a (possibly negative) host integer
Add32(w, n) == <<(w[1] + ((w[2] + n) \div W16)) % W16, (w[2] + n) % W16>>

\* a - b as a host integer, for words less than 2^31 apart
Diff32(a, b) == (a[1] - b[1]) * W16 + (a[2] - b[2])

\* unsigned a <= b
Le32(a, b) == a[1] < b[1] \/ (a[1] = b[1] /\ a[2] <= b[2])

SignExt16(i) == IF i >= 32768 THEN i - W16 ELSE i

RECURSIVE Or16(_, _)
Or16(a, b) == IF a = 0 THEN b
              ELSE IF b = 0 THEN a
              ELSE 2 * Or16(a \div 2, b \div 2) + (IF a % 2 = 1 \/ b % 2 = 1 THEN 1 ELSE 0)

MIPS32_PRACC_FASTDATA_AREA == <<65312, 0>>

MIPS32_PRACC_TEXT == <<65312, 512>>

MIPS32_PRACC_STACK == <<65312, 16384>>

MIPS32_PRACC_PARAM_IN == <<65312, 4096>>

MIPS32_PRACC_PARAM_IN_SIZE == 4096

MIPS32_PRACC_PARAM_OUT == Add32(MIPS32_PRACC_PARAM_IN, MIPS32_PRACC_PARAM_IN_SIZE)

MIPS32_FASTDATA_HANDLER_SIZE == 128

MIPS32NUMCOREREGS == 38

ERROR_FAIL == "ERROR_FAIL"

ERROR_TARGET_RESOURCE_NOT_AVAILABLE == "ERROR_TARGET_RESOURCE_NOT_AVAILABLE"

MIPS32_OP_BEQ == 4
MIPS32_OP_BNE == 5
MIPS32_OP_ADDI == 8
MIPS32_OP_COP0 == 16
MIPS32_OP_JR == 8
MIPS32_OP_LUI == 15
MIPS32_OP_LW == 35
MIPS32_OP_LBU == 36
MIPS32_OP_LHU == 37
MIPS32_OP_MFHI == 16
MIPS32_OP_MTHI == 17
MIPS32_OP_MFLO == 18
MIPS32_OP_MTLO == 19
MIPS32_OP_SB == 40
MIPS32_OP_SH == 41
MIPS32_OP_SW == 43
MIPS32_OP_ORI == 13
MIPS32_COP0_MF == 0
MIPS32_COP0_MT == 4

\* (opcode << 26) | (rs << 21) | (rt << 16) | (rd << 11) | (shamt << 6) | funct
MIPS32_R_INST(opcode, rs, rt, rd, shamt, funct) ==
    <<opcode * 1024 + rs * 32 + rt, Or16(Or16(rd * 2048, shamt * 64), funct)>>

\* (opcode << 26) | (rs << 21) | (rt << 16) | immd
MIPS32_I_INST(opcode, rs, rt, immd) ==
    <<Or16(opcode * 1024 + rs * 32 + rt, immd \div W16), immd % W16>>

MIPS32_NOP == <<0, 0>>
MIPS32_ADDI(tar, src, val) == MIPS32_I_INST(MIPS32_OP_ADDI, src, tar, val)
MIPS32_BEQ(src, tar, off) == MIPS32_I_INST(MIPS32_OP_BEQ, src, tar, off)
MIPS32_B(off) == MIPS32_BEQ(0, 0, off)
MIPS32_BNE(src, tar, off) == MIPS32_I_INST(MIPS32_OP_BNE, src, tar, off)
MIPS32_JR(reg) == MIPS32_R_INST(0, reg, 0, 0, 0, MIPS32_OP_JR)
MIPS32_MFC0(gpr, cpr, sel) == MIPS32_R_INST(MIPS32_OP_COP0, MIPS32_COP0_MF, gpr, cpr, 0, sel)
MIPS32_MTC0(gpr, cpr, sel) == MIPS32_R_INST(MIPS32_OP_COP0, MIPS32_COP0_MT, gpr, cpr, 0, sel)
MIPS32_LBU(reg, off, base) == MIPS32_I_INST(MIPS32_OP_LBU, base, reg, off)
MIPS32_LHU(reg, off, base) == MIPS32_I_INST(MIPS32_OP_LHU, base, reg, off)
MIPS32_LUI(reg, val) == MIPS32_I_INST(MIPS32_OP_LUI, 0, reg, val)
MIPS32_LW(reg, off, base) == MIPS32_I_INST(MIPS32_OP_LW, base, reg, off)
MIPS32_MFLO(reg) == MIPS32_R_INST(0, 0, 0, reg, 0, MIPS32_OP_MFLO)
MIPS32_MFHI(reg) == MIPS32_R_INST(0, 0, 0, reg, 0, MIPS32_OP_MFHI)
MIPS32_MTLO(reg) == MIPS32_R_INST(0, reg, 0, 0, 0, MIPS32_OP_MTLO)
MIPS32_MTHI(reg) == MIPS32_R_INST(0, reg, 0, 0, 0, MIPS32_OP_MTHI)
MIPS32_ORI(tar, src, val) == MIPS32_I_INST(MIPS32_OP_ORI, src, tar, val)
MIPS32_SB(reg, off, base) == MIPS32_I_INST(MIPS32_OP_SB, base, reg, off)
MIPS32_SH(reg, off, base) == MIPS32_I_INST(MIPS32_OP_SH, base, reg, off)
MIPS32_SW(reg, off, base) == MIPS32_I_INST(MIPS32_OP_SW, base, reg, off)

(***************************************************************************)
(* The stubs: the code arrays of the primitives, and the handler and jump   *)
(* stub of mips32_pracc_fastdata_xfer.                                     *)
(***************************************************************************)
mips32_pracc_read_mem32_code ==
    <<MIPS32_MTC0(15, 31, 0),
      MIPS32_LUI(15, UPPER16(MIPS32_PRACC_STACK)),
      MIPS32_ORI(15, 15, LOWER16(MIPS32_PRACC_STACK)),
      MIPS32_SW(8, 0, 15),
      MIPS32_SW(9, 0, 15),
      MIPS32_SW(10, 0, 15),
      MIPS32_SW(11, 0, 15),
      MIPS32_LUI(8, UPPER16(MIPS32_PRACC_PARAM_IN)),
      MIPS32_ORI(8, 8, LOWER16(MIPS32_PRACC_PARAM_IN)),
      MIPS32_LW(9, 0, 8),
      MIPS32_LW(10, 4, 8),
      MIPS32_LUI(11, UPPER16(MIPS32_PRACC_PARAM_OUT)),
      MIPS32_ORI(11, 11, LOWER16(MIPS32_PRACC_PARAM_OUT)),
      MIPS32_BEQ(0, 10, 8),
      MIPS32_NOP,
      MIPS32_LW(8, 0, 9),
      MIPS32_SW(8, 0, 11),
      MIPS32_ADDI(10, 10, NEG16(1)),
      MIPS32_ADDI(9, 9, 4),
      MIPS32_ADDI(11, 11, 4),
      MIPS32_B(NEG16(8)),
      MIPS32_NOP,
      MIPS32_LW(11, 0, 15),
      MIPS32_LW(10, 0, 15),
      MIPS32_LW(9, 0, 15),
      MIPS32_LW(8, 0, 15),
      MIPS32_B(NEG16(27)),
      MIPS32_MFC0(15, 31, 0)>>

mips32_pracc_read_u32_code ==
    <<MIPS32_MTC0(15, 31, 0),
      MIPS32_LUI(15, UPPER16(MIPS32_PRACC_STACK)),
      MIPS32_ORI(15, 15, LOWER16(MIPS32_PRACC_STACK)),
      MIPS32_SW(8, 0, 15),
      MIPS32_LW(8, NEG16(Diff32(MIPS32_PRACC_STACK, MIPS32_PRACC_PARAM_IN)), 15),
      MIPS32_LW(8, 0, 8),
      MIPS32_SW(8, NEG16(Diff32(MIPS32_PRACC_STACK, MIPS32_PRACC_PARAM_OUT)), 15),
      MIPS32_LW(8, 0, 15),
      MIPS32_B(NEG16(9)),
      MIPS32_MFC0(15, 31, 0)>>

mips32_pracc_read_mem16_code ==
    <<MIPS32_MTC0(15, 31, 0),
      MIPS32_LUI(15, UPPER16(MIPS32_PRACC_STACK)),
      MIPS32_ORI(15, 15, LOWER16(MIPS32_PRACC_STACK)),
      MIPS32_SW(8, 0, 15),
      MIPS32_SW(9, 0, 15),
      MIPS32_SW(10, 0, 15),
      MIPS32_SW(11, 0, 15),
      MIPS32_LUI(8, UPPER16(MIPS32_PRACC_PARAM_IN)),
      MIPS32_ORI(8, 8, LOWER16(MIPS32_PRACC_PARAM_IN)),
      MIPS32_LW(9, 0, 8),
      MIPS32_LW(10, 4, 8),
      MIPS32_LUI(11, UPPER16(MIPS32_PRACC_PARAM_OUT)),
      MIPS32_ORI(11, 11, LOWER16(MIPS32_PRACC_PARAM_OUT)),
      MIPS32_BEQ(0, 10, 8),
      MIPS32_NOP,
      MIPS32_LHU(8, 0, 9),
      MIPS32_SW(8, 0, 11),
      MIPS32_ADDI(10, 10, NEG16(1)),
      MIPS32_ADDI(9, 9, 2),
      MIPS32_ADDI(11, 11, 4),
      MIPS32_B(NEG16(8)),
      MIPS32_NOP,
      MIPS32_LW(11, 0, 15),
      MIPS32_LW(10, 0, 15),
      MIPS32_LW(9, 0, 15),
      MIPS32_LW(8, 0, 15),
      MIPS32_B(NEG16(27)),
      MIPS32_MFC0(15, 30, 0)>>

mips32_pracc_read_mem8_code ==
    <<MIPS32_MTC0(15, 31, 0),
      MIPS32_LUI(15, UPPER16(MIPS32_PRACC_STACK)),
      MIPS32_ORI(15, 15, LOWER16(MIPS32_PRACC_STACK)),
      MIPS32_SW(8, 0, 15),
      MIPS32_SW(9, 0, 15),
      MIPS32_SW(10, 0, 15),
      MIPS32_SW(11, 0, 15),
      MIPS32_LUI(8, UPPER16(MIPS32_PRACC_PARAM_IN)),
      MIPS32_ORI(8, 8, LOWER16(MIPS32_PRACC_PARAM_IN)),
      MIPS32_LW(9, 0, 8),
      MIPS32_LW(10, 4, 8),
      MIPS32_LUI(11, UPPER16(MIPS32_PRACC_PARAM_OUT)),
      MIPS32_ORI(11, 11, LOWER16(MIPS32_PRACC_PARAM_OUT)),
      MIPS32_BEQ(0, 10, 8),
      MIPS32_NOP,
      MIPS32_LBU(8, 0, 9),
      MIPS32_SW(8, 0, 11),
      MIPS32_ADDI(10, 10, NEG16(1)),
      MIPS32_ADDI(9, 9, 1),
      MIPS32_ADDI(11, 11, 4),
      MIPS32_B(NEG16(8)),
      MIPS32_NOP,
      MIPS32_LW(11, 0, 15),
      MIPS32_LW(10, 0, 15),
      MIPS32_LW(9, 0, 15),
      MIPS32_LW(8, 0, 15),
      MIPS32_B(NEG16(27)),
      MIPS32_MFC0(15, 31, 0)>>

mips32_pracc_write_mem32_code ==
    <<MIPS32_MTC0(15, 31, 0),
      MIPS32_LUI(15, UPPER16(MIPS32_PRACC_STACK)),
      MIPS32_ORI(15, 15, LOWER16(MIPS32_PRACC_STACK)),
      MIPS32_SW(8, 0, 15),
      MIPS32_SW(9, 0, 15),
      MIPS32_SW(10, 0, 15),
      MIPS32_SW(11, 0, 15),
      MIPS32_ADDI(8, 15, NEG16(Diff32(MIPS32_PRACC_STACK, MIPS32_PRACC_PARAM_IN))),
      MIPS32_LW(9, 0, 8),
      MIPS32_LW(10, 4, 8),
      MIPS32_ADDI(8, 8, 8),
      MIPS32_LW(11, 0, 8),
      MIPS32_SW(11, 0, 9),
      MIPS32_ADDI(9, 9, 4),
      MIPS32_BNE(10, 9, NEG16(4)),
      MIPS32_ADDI(8, 8, 4),
      MIPS32_LW(11, 0, 15),
      MIPS32_LW(10, 0, 15),
      MIPS32_LW(9, 0, 15),
      MIPS32_LW(8, 0, 15),
      MIPS32_B(NEG16(21)),
      MIPS32_MFC0(15, 31, 0)>>

mips32_pracc_write_u32_code ==
    <<MIPS32_MTC0(15, 31, 0),
      MIPS32_LUI(15, UPPER16(MIPS32_PRACC_STACK)),
      MIPS32_ORI(15, 15, LOWER16(MIPS32_PRACC_STACK)),
      MIPS32_SW(8, 0, 15),
      MIPS32_SW(9, 0, 15),
      MIPS32_LW(8, NEG16((Diff32(MIPS32_PRACC_STACK, MIPS32_PRACC_PARAM_IN))-4), 15),
      MIPS32_LW(9, NEG16(Diff32(MIPS32_PRACC_STACK, MIPS32_PRACC_PARAM_IN)), 15),
      MIPS32_SW(8, 0, 9),
      MIPS32_LW(9, 0, 15),
      MIPS32_LW(8, 0, 15),
      MIPS32_B(NEG16(11)),
      MIPS32_MFC0(15, 31, 0)>>

mips32_pracc_write_mem16_code ==
    <<MIPS32_MTC0(15, 31, 0),
      MIPS32_LUI(15, UPPER16(MIPS32_PRACC_STACK)),
      MIPS32_ORI(15, 15, LOWER16(MIPS32_PRACC_STACK)),
      MIPS32_SW(8, 0, 15),
      MIPS32_SW(9, 0, 15),
      MIPS32_SW(10, 0, 15),
      MIPS32_SW(11, 0, 15),
      MIPS32_LUI(8, UPPER16(MIPS32_PRACC_PARAM_IN)),
      MIPS32_ORI(8, 8, LOWER16(MIPS32_PRACC_PARAM_IN)),
      MIPS32_LW(9, 0, 8),
      MIPS32_LW(10, 4, 8),
      MIPS32_ADDI(8, 8, 8),
      MIPS32_BEQ(0, 10, 8),
      MIPS32_NOP,
      MIPS32_LW(11, 0, 8),
      MIPS32_SH(11, 0, 9),
      MIPS32_ADDI(10, 10, NEG16(1)),
      MIPS32_ADDI(9, 9, 2),
      MIPS32_ADDI(8, 8, 4),
      MIPS32_B(NEG16(8)),
      MIPS32_NOP,
      MIPS32_LW(11, 0, 15),
      MIPS32_LW(10, 0, 15),
      MIPS32_LW(9, 0, 15),
      MIPS32_LW(8, 0, 15),
      MIPS32_B(NEG16(26)),
      MIPS32_MFC0(15, 31, 0)>>

mips32_pracc_write_mem8_code ==
    <<MIPS32_MTC0(15, 31, 0),
      MIPS32_LUI(15, UPPER16(MIPS32_PRACC_STACK)),
      MIPS32_ORI(15, 15, LOWER16(MIPS32_PRACC_STACK)),
      MIPS32_SW(8, 0, 15),
      MIPS32_SW(9, 0, 15),
      MIPS32_SW(10, 0, 15),
      MIPS32_SW(11, 0, 15),
      MIPS32_LUI(8, UPPER16(MIPS32_PRACC_PARAM_IN)),
      MIPS32_ORI(8, 8, LOWER16(MIPS32_PRACC_PARAM_IN)),
      MIPS32_LW(9, 0, 8),
      MIPS32_LW(10, 4, 8),
      MIPS32_ADDI(8, 8, 8),
      MIPS32_BEQ(0, 10, 8),
      MIPS32_NOP,
      MIPS32_LW(11, 0, 8),
      MIPS32_SB(11, 0, 9),
      MIPS32_ADDI(10, 10, NEG16(1)),
      MIPS32_ADDI(9, 9, 1),
      MIPS32_ADDI(8, 8, 4),
      MIPS32_B(NEG16(8)),
      MIPS32_NOP,
      MIPS32_LW(11, 0, 15),
      MIPS32_LW(10, 0, 15),
      MIPS32_LW(9, 0, 15),
      MIPS32_LW(8, 0, 15),
      MIPS32_B(NEG16(26)),
      MIPS32_MFC0(15, 31, 0)>>

mips32_pracc_write_regs_code ==
    <<MIPS32_LUI(2, UPPER16(MIPS32_PRACC_PARAM_IN)),
      MIPS32_ORI(2, 2, LOWER16(MIPS32_PRACC_PARAM_IN)),
      MIPS32_LW(1, 1*4, 2),
      MIPS32_LW(15, 15*4, 2),
      MIPS32_MTC0(15, 31, 0),
      MIPS32_LUI(15, UPPER16(MIPS32_PRACC_STACK)),
      MIPS32_ORI(15, 15, LOWER16(MIPS32_PRACC_STACK)),
      MIPS32_SW(1, 0, 15),
      MIPS32_LUI(1, UPPER16(MIPS32_PRACC_PARAM_IN)),
      MIPS32_ORI(1, 1, LOWER16(MIPS32_PRACC_PARAM_IN)),
      MIPS32_LW(3, 3*4, 1),
      MIPS32_LW(4, 4*4, 1),
      MIPS32_LW(5, 5*4, 1),
      MIPS32_LW(6, 6*4, 1),
      MIPS32_LW(7, 7*4, 1),
      MIPS32_LW(8, 8*4, 1),
      MIPS32_LW(9, 9*4, 1),
      MIPS32_LW(10, 10*4, 1),
      MIPS32_LW(11, 11*4, 1),
      MIPS32_LW(12, 12*4, 1),
      MIPS32_LW(13, 13*4, 1),
      MIPS32_LW(14, 14*4, 1),
      MIPS32_LW(16, 16*4, 1),
      MIPS32_LW(17, 17*4, 1),
      MIPS32_LW(18, 18*4, 1),
      MIPS32_LW(19, 19*4, 1),
      MIPS32_LW(20, 20*4, 1),
      MIPS32_LW(21, 21*4, 1),
      MIPS32_LW(22, 22*4, 1),
      MIPS32_LW(23, 23*4, 1),
      MIPS32_LW(24, 24*4, 1),
      MIPS32_LW(25, 25*4, 1),
      MIPS32_LW(26, 26*4, 1),
      MIPS32_LW(27, 27*4, 1),
      MIPS32_LW(28, 28*4, 1),
      MIPS32_LW(29, 29*4, 1),
      MIPS32_LW(30, 30*4, 1),
      MIPS32_LW(31, 31*4, 1),
      MIPS32_LW(2, 32*4, 1),
      MIPS32_MTC0(2, 12, 0),
      MIPS32_LW(2, 33*4, 1),
      MIPS32_MTLO(2),
      MIPS32_LW(2, 34*4, 1),
      MIPS32_MTHI(2),
      MIPS32_LW(2, 35*4, 1),
      MIPS32_MTC0(2, 8, 0),
      MIPS32_LW(2, 36*4, 1),
      MIPS32_MTC0(2, 13, 0),
      MIPS32_LW(2, 37*4, 1),
      MIPS32_MTC0(2, 24, 0),
      MIPS32_LW(2, 2*4, 1),
      MIPS32_LW(1, 0, 15),
      MIPS32_B(NEG16(53)),
      MIPS32_MFC0(15, 31, 0)>>

mips32_pracc_read_regs_code ==
    <<MIPS32_MTC0(2, 31, 0),
      MIPS32_LUI(2, UPPER16(MIPS32_PRACC_PARAM_OUT)),
      MIPS32_ORI(2, 2, LOWER16(MIPS32_PRACC_PARAM_OUT)),
      MIPS32_SW(0, 0*4, 2),
      MIPS32_SW(1, 1*4, 2),
      MIPS32_SW(15, 15*4, 2),
      MIPS32_MFC0(2, 31, 0),
      MIPS32_MTC0(15, 31, 0),
      MIPS32_LUI(15, UPPER16(MIPS32_PRACC_STACK)),
      MIPS32_ORI(15, 15, LOWER16(MIPS32_PRACC_STACK)),
      MIPS32_SW(1, 0, 15),
      MIPS32_SW(2, 0, 15),
      MIPS32_LUI(1, UPPER16(MIPS32_PRACC_PARAM_OUT)),
      MIPS32_ORI(1, 1, LOWER16(MIPS32_PRACC_PARAM_OUT)),
      MIPS32_SW(2, 2*4, 1),
      MIPS32_SW(3, 3*4, 1),
      MIPS32_SW(4, 4*4, 1),
      MIPS32_SW(5, 5*4, 1),
      MIPS32_SW(6, 6*4, 1),
      MIPS32_SW(7, 7*4, 1),
      MIPS32_SW(8, 8*4, 1),
      MIPS32_SW(9, 9*4, 1),
      MIPS32_SW(10, 10*4, 1),
      MIPS32_SW(11, 11*4, 1),
      MIPS32_SW(12, 12*4, 1),
      MIPS32_SW(13, 13*4, 1),
      MIPS32_SW(14, 14*4, 1),
      MIPS32_SW(16, 16*4, 1),
      MIPS32_SW(17, 17*4, 1),
      MIPS32_SW(18, 18*4, 1),
      MIPS32_SW(19, 19*4, 1),
      MIPS32_SW(20, 20*4, 1),
      MIPS32_SW(21, 21*4, 1),
      MIPS32_SW(22, 22*4, 1),
      MIPS32_SW(23, 23*4, 1),
      MIPS32_SW(24, 24*4, 1),
      MIPS32_SW(25, 25*4, 1),
      MIPS32_SW(26, 26*4, 1),
      MIPS32_SW(27, 27*4, 1),
      MIPS32_SW(28, 28*4, 1),
      MIPS32_SW(29, 29*4, 1),
      MIPS32_SW(30, 30*4, 1),
      MIPS32_SW(31, 31*4, 1),
      MIPS32_MFC0(2, 12, 0),
      MIPS32_SW(2, 32*4, 1),
      MIPS32_MFLO(2),
      MIPS32_SW(2, 33*4, 1),
      MIPS32_MFHI(2),
      MIPS32_SW(2, 34*4, 1),
      MIPS32_MFC0(2, 8, 0),
      MIPS32_SW(2, 35*4, 1),
      MIPS32_MFC0(2, 13, 0),
      MIPS32_SW(2, 36*4, 1),
      MIPS32_MFC0(2, 24, 0),
      MIPS32_SW(2, 37*4, 1),
      MIPS32_LW(2, 0, 15),
      MIPS32_LW(1, 0, 15),
      MIPS32_B(NEG16(58)),
      MIPS32_MFC0(15, 31, 0)>>

handler_code ==
    <<MIPS32_SW(8, MIPS32_FASTDATA_HANDLER_SIZE - 4, 15),
      MIPS32_SW(9, MIPS32_FASTDATA_HANDLER_SIZE - 8, 15),
      MIPS32_SW(10, MIPS32_FASTDATA_HANDLER_SIZE - 12, 15),
      MIPS32_SW(11, MIPS32_FASTDATA_HANDLER_SIZE - 16, 15),
      MIPS32_LUI(8, UPPER16(MIPS32_PRACC_FASTDATA_AREA)),
      MIPS32_ORI(8, 8, LOWER16(MIPS32_PRACC_FASTDATA_AREA)),
      MIPS32_LW(9, 0, 8),
      MIPS32_LW(10, 0, 8),
      MIPS32_LW(11, 0, 0),
      MIPS32_SW(11, 0, 0),
      MIPS32_BNE(10, 9, NEG16(3)),
      MIPS32_ADDI(9, 9, 4),
      MIPS32_LW(8, MIPS32_FASTDATA_HANDLER_SIZE - 4, 15),
      MIPS32_LW(9, MIPS32_FASTDATA_HANDLER_SIZE - 8, 15),
      MIPS32_LW(10, MIPS32_FASTDATA_HANDLER_SIZE - 12, 15),
      MIPS32_LW(11, MIPS32_FASTDATA_HANDLER_SIZE - 16, 15),
      MIPS32_LUI(15, UPPER16(MIPS32_PRACC_TEXT)),
      MIPS32_ORI(15, 15, LOWER16(MIPS32_PRACC_TEXT)),
      MIPS32_JR(15),
      MIPS32_MFC0(15, 31, 0)>>

jmp_code ==
    <<MIPS32_MTC0(15, 31, 0),
      MIPS32_LUI(15, 0),
      MIPS32_ORI(15, 15, 0),
      MIPS32_JR(15),
      MIPS32_NOP>>

(***************************************************************************)
(* The target: a MIPS32 processor in debug mode that executes the words    *)
(* it fetches, with one branch delay slot.  Fetches, loads and stores in   *)
(* dmseg (0xFF200000 .. 0xFF2FFFFF) are processor accesses the probe has   *)
(* to serve; every other load or store goes to the target memory, whose    *)
(* bytes are little-endian within a word.                                  *)
(***************************************************************************)
CP0Regs == {8, 12, 13, 24, 30, 31}

InDmseg(a) == a[1] \div 16 = 4082

\* the word the target memory holds before anything is written to it
MemInit(a) == <<(a[2] * 5 + a[1] + 9) % W16, (a[2] * 7 + 11) % W16>>

MemWord(mem, a) == IF a \in DOMAIN mem THEN mem[a] ELSE MemInit(a)

Aligned(a) == <<a[1], a[2] - (a[2] % 4)>>

LoadMem(mem, a, size) ==
    IF size = 4 THEN MemWord(mem, Aligned(a))
    ELSE IF size = 2 THEN <<0, MemWord(mem, Aligned(a))[IF a[2] % 4 < 2 THEN 2 ELSE 1]>>
    ELSE <<0, IF a[2] % 2 = 0
              THEN MemWord(mem, Aligned(a))[IF a[2] % 4 < 2 THEN 2 ELSE 1] % 256
              ELSE MemWord(mem, Aligned(a))[IF a[2] % 4 < 2 THEN 2 ELSE 1] \div 256>>

\* the word at Aligned(a) after size bytes of v are stored at a
Merge(old, a, size, v) ==
    LET half(h) == IF size = 2 THEN v[2]
                   ELSE IF a[2] % 2 = 0 THEN (h \div 256) * 256 + (v[2] % 256)
                   ELSE (v[2] % 256) * 256 + (h % 256)
    IN  IF size = 4 THEN v
        ELSE IF a[2] % 4 < 2 THEN <<old[1], half(old[2])>>
        ELSE <<half(old[1]), old[2]>>

StoreMem(mem, a, size, v) ==
    [x \in DOMAIN mem \cup {Aligned(a)} |->
        IF x = Aligned(a) THEN Merge(MemWord(mem, Aligned(a)), a, size, v) ELSE mem[x]]

Opcode(w) == w[1] \div 1024

Rs(w) == (w[1] \div 32) % 32

Rt(w) == w[1] % 32

Rd(w) == w[2] \div 2048

Funct(w) == w[2] % 64

SetReg(c, n, v) == IF n = 0 THEN c ELSE [c EXCEPT !.r[n] = v]

\* the instruction at pc is done: the delay slot or the next word follows
Advance(c, target) == [c EXCEPT !.pc = c.npc, !.npc = target]

Sequential(c) == Advance(c, Add32(c.npc, 4))

Branch(c, taken, w) ==
    Advance(c, IF taken THEN Add32(c.npc, 4 * SignExt16(w[2])) ELSE Add32(c.npc, 4))

NoAccess == [kind |-> "none", addr |-> <<0, 0>>, size |-> 4, reg |-> 0, data |-> <<0, 0>>, delay |-> 0]

IsLoad(w) == Opcode(w) \in {MIPS32_OP_LW, MIPS32_OP_LHU, MIPS32_OP_LBU}

IsStore(w) == Opcode(w) \in {MIPS32_OP_SW, MIPS32_OP_SH, MIPS32_OP_SB}

AccessSize(w) ==
    IF Opcode(w) \in {MIPS32_OP_LW, MIPS32_OP_SW} THEN 4
    ELSE IF Opcode(w) \in {MIPS32_OP_LHU, MIPS32_OP_SH} THEN 2 ELSE 1

\* the load or store the word w asks for
DataAccess(c, w) ==
    [kind |-> IF IsLoad(w) THEN "load" ELSE "store",
     addr |-> Add32(c.r[Rs(w)], SignExt16(w[2])),
     size |-> AccessSize(w), reg |-> Rt(w), data |-> c.r[Rt(w)], delay |-> 0]

\* the instruction word w, other than a load or a store, is executed
Execute(c, w) ==
    IF Opcode(w) = 0
    THEN IF Funct(w) = MIPS32_OP_JR THEN Advance(c, c.r[Rs(w)])
         ELSE IF Funct(w) = MIPS32_OP_MFHI THEN Sequential(SetReg(c, Rd(w), c.hi))
         ELSE IF Funct(w) = MIPS32_OP_MFLO THEN Sequential(SetReg(c, Rd(w), c.lo))
         ELSE IF Funct(w) = MIPS32_OP_MTHI THEN Sequential([c EXCEPT !.hi = c.r[Rs(w)]])
         ELSE IF Funct(w) = MIPS32_OP_MTLO THEN Sequential([c EXCEPT !.lo = c.r[Rs(w)]])
         ELSE Sequential(c)
    ELSE IF Opcode(w) = MIPS32_OP_COP0
    THEN IF Rs(w) = MIPS32_COP0_MT
         THEN Sequential([c EXCEPT !.c0[Rd(w)] = c.r[Rt(w)]])
         ELSE Sequential(SetReg(c, Rt(w), c.c0[Rd(w)]))
    ELSE IF Opcode(w) = MIPS32_OP_BEQ THEN Branch(c, c.r[Rs(w)] = c.r[Rt(w)], w)
    ELSE IF Opcode(w) = MIPS32_OP_BNE THEN Branch(c, c.r[Rs(w)] # c.r[Rt(w)], w)
    ELSE IF Opcode(w) = MIPS32_OP_ADDI
    THEN Sequential(SetReg(c, Rt(w), Add32(c.r[Rs(w)], SignExt16(w[2]))))
    ELSE IF Opcode(w) = MIPS32_OP_ORI
    THEN Sequential(SetReg(c, Rt(w), <<c.r[Rs(w)][1], Or16(c.r[Rs(w)][2], w[2])>>))
    ELSE IF Opcode(w) = MIPS32_OP_LUI THEN Sequential(SetReg(c, Rt(w), <<w[2], 0>>))
    ELSE Sequential(c)

\* a load gets its datum, a store has delivered its datum
Complete(c, acc, data) ==
    IF acc.kind = "load" THEN Sequential(SetReg(c, acc.reg, data)) ELSE Sequential(c)

\* the access the processor makes next to its own memory is made at once
OwnAccess(c, acc) ==
    IF acc.kind = "load"
    THEN Complete([c EXCEPT !.loads = @ + 1], acc, LoadMem(c.mem, acc.addr, acc.size))
    ELSE Complete([c EXCEPT !.mem = StoreMem(@, acc.addr, acc.size, acc.data),
                            !.stores = Append(@, acc.addr)], acc, acc.data)

Fetch(c) == [kind |-> "fetch", addr |-> c.pc, size |-> 4, reg |-> 0, data |-> <<0, 0>>, delay |-> 0]

\* the processor has the word w it fetched: the result is the processor
\* and the access to dmseg it waits for next; what it fetches from its own
\* memory it executes at once, fuel words at most
RECURSIVE Fetched(_, _, _)
Resume(c, fuel) ==
    IF InDmseg(c.pc) THEN [cpu |-> c, acc |-> Fetch(c)]
    ELSE IF fuel = 0 THEN [cpu |-> c, acc |-> NoAccess]
    ELSE Fetched(c, MemWord(c.mem, c.pc), fuel - 1)

Fetched(c, w, fuel) ==
    LET data(acc) == IF InDmseg(acc.addr) THEN [cpu |-> c, acc |-> acc]
                     ELSE Resume(OwnAccess(c, acc), fuel)
    IN  IF IsLoad(w) \/ IsStore(w) THEN data(DataAccess(c, w)) ELSE Resume(Execute(c, w), fuel)

\* the probe has served the access acc with data
Served(c, acc, data) ==
    IF acc.kind = "fetch" THEN Fetched(c, data, MaxRamSteps)
    ELSE Resume(Complete(c, acc, data), MaxRamSteps)

(***************************************************************************)
(* mips32_pracc_exec.  s is the session record: the context ctx of the     *)
(* call (code, parameter arrays, stack), the target, the access it waits   *)
(* for (acc), the scans issued since the primitive was called (scans, by   *)
(* data register) and in the last pass of the loop (cyc).  An index        *)
(* outside an array reads an indeterminate word (junk) and writes nothing  *)
(* the model keeps; oob records that it happened.                          *)
(***************************************************************************)
PRACC_TIMEOUT_MS == 1000

STACK_SIZE == 32

Undef == <<-1, -1>>

JunkWords == {<<0, 0>>, <<43690, 21845>>}

DRs == {"CONTROL", "ADDRESS", "DATA", "FASTDATA"}

\* mips_ejtag_set_instr followed by a scan of the selected data register
DrScan(s, dr, dir, val) ==
    [s EXCEPT !.scans[dr] = @ + 1, !.cyc = Append(@, [dr |-> dr, dir |-> dir, val |-> val])]

Elem(arr, offset, junk) == IF offset + 1 \in DOMAIN arr THEN arr[offset + 1] ELSE junk

Put(arr, offset, data) ==
    IF offset + 1 \in DOMAIN arr THEN [arr EXCEPT ![offset + 1] = data] ELSE arr

InArena(address, base, num) == Le32(base, address) /\ Le32(address, Add32(base, num * 4))

CodeOf(name) ==
    CASE name = "read_mem32" -> mips32_pracc_read_mem32_code
      [] name = "read_u32" -> mips32_pracc_read_u32_code
      [] name = "read_mem16" -> mips32_pracc_read_mem16_code
      [] name = "read_mem8" -> mips32_pracc_read_mem8_code
      [] name = "write_mem32" -> mips32_pracc_write_mem32_code
      [] name = "write_u32" -> mips32_pracc_write_u32_code
      [] name = "write_mem16" -> mips32_pracc_write_mem16_code
      [] name = "write_mem8" -> mips32_pracc_write_mem8_code
      [] name = "write_regs" -> mips32_pracc_write_regs_code
      [] name = "read_regs" -> mips32_pracc_read_regs_code

\* the datum is sent out and the pending access is cleared
exec_read_send(s, data) ==
    [DrScan(DrScan(s, "DATA", "out", data), "CONTROL", "out", <<0, 0>>)
        EXCEPT !.ret = ERROR_OK, !.data = data, !.served = TRUE]

\* a read that serves a zero word to any other address
mips32_pracc_exec_read_zero(s, address, junk) ==
    IF InArena(address, MIPS32_PRACC_PARAM_IN, s.num_iparam)
    THEN exec_read_send([s EXCEPT !.oob = @ \/ Diff32(address, MIPS32_PRACC_PARAM_IN) \div 4 >= s.num_iparam],
                        Elem(s.iparam, Diff32(address, MIPS32_PRACC_PARAM_IN) \div 4, junk))
    ELSE IF InArena(address, MIPS32_PRACC_PARAM_OUT, s.num_oparam)
    THEN exec_read_send([s EXCEPT !.oob = @ \/ Diff32(address, MIPS32_PRACC_PARAM_OUT) \div 4 >= s.num_oparam],
                        IF Diff32(address, MIPS32_PRACC_PARAM_OUT) \div 4 < s.num_oparam
                        THEN Elem(s.oparam, s.obase + Diff32(address, MIPS32_PRACC_PARAM_OUT) \div 4, junk)
                        ELSE junk)
    ELSE IF InArena(address, MIPS32_PRACC_TEXT, Len(CodeOf(s.code)))
    THEN exec_read_send([s EXCEPT !.oob = @ \/ Diff32(address, MIPS32_PRACC_TEXT) \div 4 >= Len(CodeOf(s.code))],
                        Elem(CodeOf(s.code), Diff32(address, MIPS32_PRACC_TEXT) \div 4, junk))
    ELSE IF address = MIPS32_PRACC_STACK
    THEN exec_read_send([s EXCEPT !.stack_offset = @ - 1, !.pops = @ + 1,
                                  !.oob = @ \/ s.stack_offset - 1 \notin 0..(STACK_SIZE - 1)],
                        Elem(s.stack, s.stack_offset - 1, junk))
    ELSE exec_read_send(s, <<0, 0>>)

mips32_pracc_exec_read(s, address, junk) ==
    IF InArena(address, MIPS32_PRACC_PARAM_IN, s.num_iparam)
    THEN exec_read_send([s EXCEPT !.oob = @ \/ Diff32(address, MIPS32_PRACC_PARAM_IN) \div 4 >= s.num_iparam],
                        Elem(s.iparam, Diff32(address, MIPS32_PRACC_PARAM_IN) \div 4, junk))
    ELSE IF InArena(address, MIPS32_PRACC_PARAM_OUT, s.num_oparam)
    THEN exec_read_send([s EXCEPT !.oob = @ \/ Diff32(address, MIPS32_PRACC_PARAM_OUT) \div 4 >= s.num_oparam],
                        IF Diff32(address, MIPS32_PRACC_PARAM_OUT) \div 4 < s.num_oparam
                        THEN Elem(s.oparam, s.obase + Diff32(address, MIPS32_PRACC_PARAM_OUT) \div 4, junk)
                        ELSE junk)
    ELSE IF InArena(address, MIPS32_PRACC_TEXT, Len(CodeOf(s.code)))
    THEN exec_read_send([s EXCEPT !.oob = @ \/ Diff32(address, MIPS32_PRACC_TEXT) \div 4 >= Len(CodeOf(s.code))],
                        Elem(CodeOf(s.code), Diff32(address, MIPS32_PRACC_TEXT) \div 4, junk))
    ELSE IF address = MIPS32_PRACC_STACK
    THEN exec_read_send([s EXCEPT !.stack_offset = @ - 1, !.pops = @ + 1,
                                  !.oob = @ \/ s.stack_offset - 1 \notin 0..(STACK_SIZE - 1)],
                        Elem(s.stack, s.stack_offset - 1, junk))
    ELSE [s EXCEPT !.ret = ERROR_JTAG_DEVICE_ERROR, !.data = <<0, 0>>, !.bad = TRUE]

\* the datum has been scanned in and the pending access cleared
exec_write_store(s, address, data) ==
    IF InArena(address, MIPS32_PRACC_PARAM_IN, s.num_iparam)
    THEN [s EXCEPT !.iparam = Put(@, Diff32(address, MIPS32_PRACC_PARAM_IN) \div 4, data),
                   !.oob = @ \/ Diff32(address, MIPS32_PRACC_PARAM_IN) \div 4 >= s.num_iparam,
                   !.ret = ERROR_OK]
    ELSE IF InArena(address, MIPS32_PRACC_PARAM_OUT, s.num_oparam)
    THEN [s EXCEPT !.oparam = IF Diff32(address, MIPS32_PRACC_PARAM_OUT) \div 4 < s.num_oparam
                              THEN Put(@, s.obase + Diff32(address, MIPS32_PRACC_PARAM_OUT) \div 4, data)
                              ELSE @,
                   !.oob = @ \/ Diff32(address, MIPS32_PRACC_PARAM_OUT) \div 4 >= s.num_oparam,
                   !.ret = ERROR_OK]
    ELSE IF address = MIPS32_PRACC_STACK
    THEN [s EXCEPT !.stack = Put(@, s.stack_offset, data),
                   !.stack_offset = @ + 1, !.pushes = @ + 1,
                   !.oob = @ \/ s.stack_offset \notin 0..(STACK_SIZE - 1),
                   !.ret = ERROR_OK]
    ELSE [s EXCEPT !.ret = ERROR_JTAG_DEVICE_ERROR, !.bad = TRUE]

mips32_pracc_exec_write(s, address, data) ==
    exec_write_store([DrScan(DrScan(s, "DATA", "in", data), "CONTROL", "out", <<0, 0>>)
                         EXCEPT !.data = data, !.served = TRUE],
                     address, data)

\* the arguments of mips32_pracc_fastdata_xfer and the index in the jump stub
FdNone == [address |-> <<0, 0>>, size |-> 0, write_t |-> 0, addr |-> <<0, 0>>, count |-> 0, i |-> 0,
           buf |-> <<>>, entry |-> Undef, exit |-> Undef]

ToWord(n) == <<n \div W16, n % W16>>

\* the processor halted in debug mode, about to fetch the debug vector
CpuInit ==
    [r |-> [i \in 0..31 |-> IF i = 0 THEN <<0, 0>> ELSE <<256 + i, 4 * i>>],
     c0 |-> [k \in CP0Regs |-> <<512 + k, k>>],
     hi |-> <<768, 1>>, lo |-> <<768, 2>>,
     pc |-> MIPS32_PRACC_TEXT, npc |-> Add32(MIPS32_PRACC_TEXT, 4),
     mem |-> <<>>, loads |-> 0, stores |-> <<>>]

PxInit(tgt) ==
    [pos |-> "idle", op |-> "none", ret |-> ERROR_OK, ncall |-> 0, st |-> "ret",
     code |-> "read_u32", num_iparam |-> 0, iparam |-> <<>>, num_oparam |-> 0, oparam |-> <<>>,
     obase |-> 0, stack |-> [i \in 1..STACK_SIZE |-> Undef], stack_offset |-> 0,
     pass |-> 0, cycle |-> 1,
     addr |-> <<0, 0>>, count |-> 0, blocksize |-> 0, bytesread |-> 0, size |-> 4,
     buf |-> <<>>, in0 |-> <<>>,
     tgt |-> tgt, cpu |-> CpuInit, acc |-> Fetch(CpuInit), rogue |-> 0,
     el |-> 0, polls |-> 0, scans |-> [d \in DRs |-> 0], cyc |-> <<>>,
     data |-> <<0, 0>>, served |-> FALSE, oob |-> FALSE, pushes |-> 0, pops |-> 0,
     execs |-> <<>>, r0 |-> CpuInit.r, s0 |-> [hi |-> CpuInit.hi, lo |-> CpuInit.lo, c0 |-> CpuInit.c0],
     fast_access_save |-> -1, fas0 |-> -1, fd |-> FdNone, uploads |-> 0,
     addr0 |-> <<0, 0>>, count0 |-> 0, start |-> FALSE, ctrl |-> <<0, 0>>,
     timeout |-> FALSE, bad |-> FALSE, xret |-> ERROR_OK,
     wrote |-> <<>>]

\* a primitive is called: what the previous call left in the log is dropped
Enter(s, op, addr, size, count) ==
    [s EXCEPT !.pos = "exec", !.op = op, !.ret = ERROR_OK, !.ncall = @ + 1,
              !.addr = addr, !.size = size, !.count = count, !.blocksize = 0, !.bytesread = 0,
              !.buf = <<>>, !.in0 = <<>>, !.oparam = <<>>, !.iparam = <<>>,
              !.scans = [d \in DRs |-> 0], !.cyc = <<>>, !.polls = 0, !.el = 0,
              !.data = <<0, 0>>, !.served = FALSE, !.oob = FALSE, !.pushes = 0, !.pops = 0,
              !.execs = <<>>, !.r0 = s.cpu.r, !.rogue = 0,
              !.s0 = [hi |-> s.cpu.hi, lo |-> s.cpu.lo, c0 |-> s.cpu.c0],
              !.fd = FdNone, !.uploads = 0, !.fas0 = s.fast_access_save,
              !.addr0 = addr, !.count0 = count,
              !.start = (s.acc.kind = "fetch" /\ s.acc.addr = MIPS32_PRACC_TEXT /\ s.acc.delay = 0),
              !.ctrl = <<0, 0>>, !.timeout = FALSE, !.bad = FALSE, !.xret = ERROR_OK,
              !.cpu.loads = 0, !.cpu.stores = <<>>,
              !.wrote = IF s.op = "write_regs" /\ s.start /\ s.ret = ERROR_OK THEN s.in0 ELSE <<>>]

\* the primitive returns retval to its caller
Leave(s, retval) == [s EXCEPT !.pos = "idle", !.ret = retval, !.st = "ret"]

\* lines 257-264: the context of one call of mips32_pracc_exec
mips32_pracc_exec_enter(s, code, num_param_in, param_in, num_param_out, param_out, obase, cycle) ==
    [s EXCEPT !.pos = "exec", !.st = "loop", !.code = code,
              !.num_iparam = num_param_in, !.iparam = param_in, !.in0 = param_in,
              !.num_oparam = num_param_out, !.oparam = param_out, !.obase = obase,
              !.stack = [i \in 1..STACK_SIZE |-> Undef], !.stack_offset = 0,
              !.pass = 0, !.cycle = cycle, !.el = 0, !.polls = 0, !.ret = ERROR_OK,
              !.xret = "pending",
              !.execs = Append(@, [code |-> code, param_in |-> param_in,
                                   num_param_out |-> num_param_out, obase |-> obase])]

\* the Control register as the target shows it: <<PRNW, PRACC>>
Ctrl(acc) ==
    IF acc.kind = "none" \/ acc.delay > 0 THEN <<0, 0>>
    ELSE <<IF acc.kind = "store" THEN 1 ELSE 0, 1>>

\* lines 130-147: the poll of wait_for_pracc_rw that reads PRACC set
wait_for_pracc_rw(s) ==
    [DrScan([s EXCEPT !.cyc = IF s.polls = 0 THEN <<>> ELSE @, !.served = FALSE],
            "CONTROL", "in", Ctrl(s.acc))
        EXCEPT !.ctrl = Ctrl(s.acc)]

\* a loop that ends at any read after the first fetch of the stub
mips32_pracc_exec_pass_anyread(s, junk) ==
    LET ret(s4) == [s4 EXCEPT !.st = "ret", !.xret = s4.ret]
        chk(s3) == IF s3.ret # ERROR_OK \/ s3.cycle = 0
                   THEN ret(s3)
                   ELSE [s3 EXCEPT !.st = "loop", !.el = 0, !.polls = 0]
        rw(s2) == IF s2.ctrl[1] = 1
                  THEN chk(mips32_pracc_exec_write(s2, s2.acc.addr, s2.acc.data))
                  ELSE IF s2.pass # 0
                  THEN ret([s2 EXCEPT !.pass = @ + 1, !.ret = ERROR_OK])
                  ELSE chk(mips32_pracc_exec_read(
                               [s2 EXCEPT !.pass = IF s2.acc.addr = MIPS32_PRACC_TEXT THEN @ + 1 ELSE @],
                               s2.acc.addr, junk))
    IN  rw(DrScan(wait_for_pracc_rw(s), "ADDRESS", "in", s.acc.addr))

\* lines 266-299: one pass of the loop for the access the target waits
\* for; st tells whether the loop goes on or mips32_pracc_exec returns ret
mips32_pracc_exec_pass(s, junk) ==
    LET ret(s4) == [s4 EXCEPT !.st = "ret", !.xret = s4.ret]
        chk(s3) == IF s3.ret # ERROR_OK \/ s3.cycle = 0
                   THEN ret(s3)
                   ELSE [s3 EXCEPT !.st = "loop", !.el = 0, !.polls = 0]
        rw(s2) == IF s2.ctrl[1] = 1
                  THEN chk(mips32_pracc_exec_write(s2, s2.acc.addr, s2.acc.data))
                  ELSE IF s2.acc.addr = MIPS32_PRACC_TEXT /\ s2.pass # 0
                  THEN ret([s2 EXCEPT !.pass = @ + 1, !.ret = ERROR_OK])
                  ELSE chk(mips32_pracc_exec_read(
                               [s2 EXCEPT !.pass = IF s2.acc.addr = MIPS32_PRACC_TEXT THEN @ + 1 ELSE @],
                               s2.acc.addr, junk))
    IN  rw(DrScan(wait_for_pracc_rw(s), "ADDRESS", "in", s.acc.addr))

\* the target takes the datum of the access that was served and goes on
React(s, nxt) ==
    LET take(r) == [s EXCEPT !.cpu = r.cpu, !.acc = r.acc]
    IN  IF ~s.served THEN s
        ELSE IF s.tgt = "cpu" THEN take(Served(s.cpu, s.acc, s.data))
        ELSE [s EXCEPT !.acc = nxt, !.rogue = @ + 1]

BLOCK == 1024

Trunc(w, size) == IF w = Undef \/ size = 4 THEN w
                  ELSE IF size = 2 THEN <<0, w[2]>> ELSE <<0, w[2] % 256>>

\* lines 375-385: the next block of mips32_pracc_read_mem32
read_mem32_block(s) ==
    mips32_pracc_exec_enter([s EXCEPT !.blocksize = IF s.count > BLOCK THEN BLOCK ELSE s.count],
                            "read_mem32", 2,
                            <<s.addr, ToWord(IF s.count > BLOCK THEN BLOCK ELSE s.count)>>,
                            IF s.count > BLOCK THEN BLOCK ELSE s.count,
                            s.oparam, s.bytesread, 1)

\* lines 373-395
mips32_pracc_read_mem32(s) ==
    IF s.count > 0 THEN read_mem32_block(s) ELSE Leave(s, s.ret)

\* lines 386-393: mips32_pracc_exec has returned to mips32_pracc_read_mem32
read_mem32_next(s) ==
    IF s.ret # ERROR_OK THEN Leave([s EXCEPT !.buf = s.oparam], s.ret)
    ELSE mips32_pracc_read_mem32([s EXCEPT !.count = @ - s.blocksize,
                                           !.addr = Add32(@, s.blocksize),
                                           !.bytesread = @ + s.blocksize,
                                           !.buf = s.oparam])

\* lines 417-428
mips32_pracc_read_u32(s) ==
    mips32_pracc_exec_enter(s, "read_u32", 1, <<s.addr>>, 1, s.oparam, 0, 1)

\* lines 470-488 and 543-561: read_mem16 and read_mem8 up to the call
read_mem_small(s, code) ==
    mips32_pracc_exec_enter([s EXCEPT !.blocksize = IF s.count > BLOCK THEN BLOCK ELSE s.count],
                            code, 2,
                            <<s.addr, ToWord(IF s.count > BLOCK THEN BLOCK ELSE s.count)>>,
                            s.count, [i \in 1..s.count |-> Undef], 0, 1)

\* lines 494-501 and 567-574: the copy to the caller's buffer
read_mem_small_copy(s) ==
    Leave([s EXCEPT !.buf = [i \in 1..s.count |-> Trunc(s.oparam[i], s.size)]], s.ret)

\* the words the caller writes
DataWord(i, size) == IF size = 4 THEN <<4660 + i, 22136 + i>>
                     ELSE IF size = 2 THEN <<0, 41394 + i>> ELSE <<0, 192 + i>>

\* lines 629-642
mips32_pracc_write_mem32(s) ==
    mips32_pracc_exec_enter(s, "write_mem32", s.count + 2,
                            <<s.addr, Add32(s.addr, s.count * 4)>> \o s.buf, 0, <<>>, 0, 1)

\* lines 666-672
mips32_pracc_write_u32(s) ==
    mips32_pracc_exec_enter(s, "write_u32", 2, <<s.addr, s.buf[1]>>, 0, <<>>, 0, 1)

\* lines 714-731 and 773-790: write_mem16 and write_mem8
write_mem_small(s, code) ==
    mips32_pracc_exec_enter(s, code, s.count + 2,
                            <<s.addr, ToWord(s.count)>> \o s.buf, 0, <<>>, 0, 1)

\* lines 310-326
mips32_pracc_read_mem(s) ==
    IF s.size = 1 THEN read_mem_small([s EXCEPT !.op = "read_mem8"], "read_mem8")
    ELSE IF s.size = 2 THEN read_mem_small([s EXCEPT !.op = "read_mem16"], "read_mem16")
    ELSE IF s.count = 1
    THEN mips32_pracc_read_u32([s EXCEPT !.op = "read_u32", !.oparam = <<Undef>>])
    ELSE mips32_pracc_read_mem32([s EXCEPT !.op = "read_mem32",
                                           !.oparam = [i \in 1..s.count |-> Undef]])

\* lines 577-593
mips32_pracc_write_mem(s) ==
    IF s.size = 1 THEN write_mem_small([s EXCEPT !.op = "write_mem8"], "write_mem8")
    ELSE IF s.size = 2 THEN write_mem_small([s EXCEPT !.op = "write_mem16"], "write_mem16")
    ELSE IF s.count = 1 THEN mips32_pracc_write_u32([s EXCEPT !.op = "write_u32"])
    ELSE mips32_pracc_write_mem32([s EXCEPT !.op = "write_mem32"])

\* lines 855-860
mips32_pracc_write_regs(s, regs) ==
    mips32_pracc_exec_enter(s, "write_regs", MIPS32NUMCOREREGS, regs, 0, <<>>, 0, 1)

\* a read of the registers that leaves out the last one
mips32_pracc_read_regs_short(s) ==
    mips32_pracc_exec_enter(s, "read_regs", 0, <<>>, MIPS32NUMCOREREGS - 1,
                            [i \in 1..MIPS32NUMCOREREGS |-> Undef], 0, 1)

\* lines 930-935
mips32_pracc_read_regs(s) ==
    mips32_pracc_exec_enter(s, "read_regs", 0, <<>>, MIPS32NUMCOREREGS,
                            [i \in 1..MIPS32NUMCOREREGS |-> Undef], 0, 1)

(***************************************************************************)
(* mips32_pracc_fastdata_xfer.  fd holds the arguments of the call and     *)
(* the position in the jump stub.  A FASTDATA scan completes the access    *)
(* the target has pending in the FASTDATA area: a load takes the word      *)
(* scanned in, a store delivers the word scanned out.                      *)
(***************************************************************************)
\* lines 991-1000: the handler with words 8 and 9 set for the direction
handler_code_for(write_t) ==
    [handler_code EXCEPT ![9] = IF write_t # 0 THEN MIPS32_LW(11, 0, 8) ELSE MIPS32_LW(11, 0, 9),
                         ![10] = IF write_t # 0 THEN MIPS32_SW(11, 0, 9) ELSE MIPS32_SW(11, 0, 8)]

\* lines 1012-1013: the jump stub with the address of the work area
jmp_code_for(address) ==
    [jmp_code EXCEPT ![2] = <<@[1], Or16(@[2], UPPER16(address))>>,
                     ![3] = <<@[1], Or16(@[2], LOWER16(address))>>]

InFastdataArea(acc) ==
    /\ acc.kind \in {"load", "store"}
    /\ acc.delay = 0
    /\ acc.addr = MIPS32_PRACC_FASTDATA_AREA

\* mips_ejtag_fastdata_scan: one scan of the FASTDATA register
mips_ejtag_fastdata_scan(s, write_t, val) ==
    LET take(s1, r) == [s1 EXCEPT !.cpu = r.cpu, !.acc = r.acc]
        scan(s1) == IF s1.tgt = "cpu" /\ InFastdataArea(s1.acc)
                    THEN take(s1, Served(s1.cpu, s1.acc, val))
                    ELSE s1
    IN  scan(DrScan([s EXCEPT !.buf = IF write_t # 0 THEN @
                                      ELSE Append(@, IF InFastdataArea(s.acc) /\ s.acc.kind = "store"
                                                     THEN s.acc.data ELSE Undef)],
                    "FASTDATA", IF write_t # 0 THEN "out" ELSE "in", val))

RECURSIVE FastdataLoop(_, _)
\* lines 1055-1059
FastdataLoop(s, i) ==
    IF i < s.fd.count
    THEN FastdataLoop(mips_ejtag_fastdata_scan(s, s.fd.write_t,
                                               IF s.fd.write_t # 0 THEN s.fd.buf[i + 1] ELSE <<0, 0>>),
                      i + 1)
    ELSE s

\* lines 1015-1027, one word of the jump stub: the access is served with
\* the word whatever its address
fastdata_jmp(s, nxt) ==
    LET on(s2) == IF s2.fd.i = Len(jmp_code) THEN [s2 EXCEPT !.pos = "fd_entry"] ELSE s2
    IN  on(React([DrScan(DrScan(wait_for_pracc_rw(s),
                                "DATA", "out", jmp_code_for(s.fd.address)[s.fd.i + 1]),
                         "CONTROL", "out", <<0, 0>>)
                     EXCEPT !.data = jmp_code_for(s.fd.address)[s.fd.i + 1], !.served = TRUE,
                            !.fd.i = @ + 1, !.el = 0, !.polls = 0],
                 nxt))

\* an upload of the handler at every transfer
fastdata_upload_always(s) ==
    mips32_pracc_write_mem32([s EXCEPT !.addr = s.fd.address, !.count = Len(handler_code),
                                       !.buf = handler_code_for(s.fd.write_t),
                                       !.fast_access_save = s.fd.write_t,
                                       !.uploads = @ + 1])

\* lines 1002-1013: the upload of the handler, when the direction changes
fastdata_upload(s) ==
    IF s.fd.write_t # s.fast_access_save
    THEN mips32_pracc_write_mem32([s EXCEPT !.addr = s.fd.address, !.count = Len(handler_code),
                                            !.buf = handler_code_for(s.fd.write_t),
                                            !.fast_access_save = s.fd.write_t,
                                            !.uploads = @ + 1])
    ELSE [s EXCEPT !.pos = "fd_jmp", !.st = "loop", !.buf = IF s.fd.write_t # 0 THEN s.fd.buf ELSE <<>>]

\* a transfer that takes any work area
mips32_pracc_fastdata_xfer_anysize(s) == fastdata_upload(s)

\* lines 985-989
mips32_pracc_fastdata_xfer(s) ==
    IF s.fd.size < MIPS32_FASTDATA_HANDLER_SIZE
    THEN Leave(s, ERROR_TARGET_RESOURCE_NOT_AVAILABLE)
    ELSE fastdata_upload(s)

\* mips32_pracc_write_mem32 has returned to mips32_pracc_fastdata_xfer
fastdata_uploaded(s) ==
    [s EXCEPT !.pos = "fd_jmp", !.st = "loop", !.ret = ERROR_OK, !.el = 0, !.polls = 0,
              !.buf = IF s.fd.write_t # 0 THEN s.fd.buf ELSE <<>>]

\* a transfer whose end address is the one after the last element
fastdata_entry_end_past(s, nxt) ==
    LET sent(s3) == [(IF s3.tgt = "cpu" THEN s3 ELSE [s3 EXCEPT !.acc = nxt, !.rogue = @ + 1])
                        EXCEPT !.pos = "fd_exit", !.el = 0, !.polls = 0]
        xfer(s2) == sent(FastdataLoop(
                        mips_ejtag_fastdata_scan(
                            mips_ejtag_fastdata_scan(s2, 1, s2.fd.addr),
                            1, Add32(s2.fd.addr, s2.fd.count * 4)),
                        0))
        chk(s1) == IF s1.acc.addr # MIPS32_PRACC_FASTDATA_AREA
                   THEN Leave([s1 EXCEPT !.fd.entry = s1.acc.addr], ERROR_FAIL)
                   ELSE xfer([DrScan(s1, "CONTROL", "in", Ctrl(s1.acc))
                                 EXCEPT !.fd.entry = s1.acc.addr])
    IN  chk(DrScan(wait_for_pracc_rw(s), "ADDRESS", "in", s.acc.addr))

\* lines 1029-1065: the check of the handler's first access, then the scans
fastdata_entry(s, nxt) ==
    LET sent(s3) == [(IF s3.tgt = "cpu" THEN s3 ELSE [s3 EXCEPT !.acc = nxt, !.rogue = @ + 1])
                        EXCEPT !.pos = "fd_exit", !.el = 0, !.polls = 0]
        xfer(s2) == sent(FastdataLoop(
                        mips_ejtag_fastdata_scan(
                            mips_ejtag_fastdata_scan(s2, 1, s2.fd.addr),
                            1, Add32(s2.fd.addr, (s2.fd.count - 1) * 4)),
                        0))
        chk(s1) == IF s1.acc.addr # MIPS32_PRACC_FASTDATA_AREA
                   THEN Leave([s1 EXCEPT !.fd.entry = s1.acc.addr], ERROR_FAIL)
                   ELSE xfer([DrScan(s1, "CONTROL", "in", Ctrl(s1.acc))
                                 EXCEPT !.fd.entry = s1.acc.addr])
    IN  chk(DrScan(wait_for_pracc_rw(s), "ADDRESS", "in", s.acc.addr))

\* an exit check that fails the call
fastdata_exit_strict(s) ==
    Leave([DrScan(wait_for_pracc_rw(s), "ADDRESS", "in", s.acc.addr)
              EXCEPT !.fd.exit = s.acc.addr],
          IF s.acc.addr # MIPS32_PRACC_TEXT THEN ERROR_FAIL ELSE ERROR_OK)

\* lines 1067-1079: the address after the transfer is only logged
fastdata_exit(s) ==
    Leave([DrScan(wait_for_pracc_rw(s), "ADDRESS", "in", s.acc.addr)
              EXCEPT !.fd.exit = s.acc.addr],
          ERROR_OK)

\* mips32_pracc_exec has returned: the rest of the primitive that called it
Returned(s) ==
    IF s.op = "read_mem32" THEN read_mem32_next(s)
    ELSE IF s.op \in {"read_mem16", "read_mem8"} THEN read_mem_small_copy(s)
    ELSE IF s.op = "fastdata"
    THEN IF s.pos = "exec" THEN fastdata_uploaded(s) ELSE Leave(s, s.ret)
    ELSE Leave([s EXCEPT !.buf = IF s.op \in {"read_u32", "read_regs"} THEN s.oparam ELSE @], s.ret)

(***************************************************************************)
(* The session.  A faithful target (tgt = "cpu") executes what it is       *)
(* served; any other target (tgt = "rogue") presents accesses of its own   *)
(* choice, late or never.  A primitive is called when the host is idle;    *)
(* Serve is one pass of the loop of mips32_pracc_exec for an access the    *)
(* target has pending, Poll one poll of wait_for_pracc_rw that finds       *)
(* PRACC clear.                                                            *)
(***************************************************************************)
MemAddr == <<32768, 256>>

PollMs == {400, 700}

RogueAccess(kind, addr, delay) ==
    [kind |-> kind, addr |-> addr, size |-> 4, reg |-> 0, data |-> <<4369, 8738>>, delay |-> delay]

RogueAccesses ==
    {NoAccess,
     RogueAccess("fetch", MIPS32_PRACC_TEXT, 0),
     RogueAccess("load", MIPS32_PRACC_STACK, 0),
     RogueAccess("store", MIPS32_PRACC_STACK, 0),
     RogueAccess("load", MIPS32_PRACC_PARAM_IN, 1),
     RogueAccess("store", MIPS32_PRACC_PARAM_OUT, 0),
     RogueAccess("load", MIPS32_PRACC_PARAM_OUT, 0),
     RogueAccess("store", Add32(MIPS32_PRACC_STACK, 4), 0),
     RogueAccess("store", Add32(MIPS32_PRACC_TEXT, 4), 0),
     RogueAccess("load", MIPS32_PRACC_FASTDATA_AREA, 0)}

\* what such a target presents around the FASTDATA transfer
FdRogueAccesses ==
    {NoAccess,
     RogueAccess("fetch", MIPS32_PRACC_TEXT, 0),
     RogueAccess("load", MIPS32_PRACC_FASTDATA_AREA, 0)}

RogueNext(s) ==
    IF s.tgt # "rogue" THEN {NoAccess}
    ELSE IF s.pos = "exec" THEN (IF s.rogue + 1 < MaxRogue THEN RogueAccesses ELSE {NoAccess})
    ELSE IF s.pos = "fd_jmp" /\ s.fd.i + 1 < Len(jmp_code) THEN {s.acc}
    ELSE FdRogueAccesses

\* a wait that gives up without reporting it
wait_for_pracc_rw_poll_quiet(s, ms) ==
    LET late(s1) == IF s1.el > PRACC_TIMEOUT_MS
                    THEN [s1 EXCEPT !.ret = ERROR_OK, !.st = "ret",
                                    !.xret = IF s1.pos = "exec" THEN ERROR_OK ELSE @,
                                    !.timeout = TRUE]
                    ELSE s1
    IN  late(DrScan([s EXCEPT !.cyc = IF s.polls = 0 THEN <<>> ELSE @, !.served = FALSE,
                              !.el = @ + ms, !.polls = @ + 1,
                              !.acc.delay = IF @ > 0 THEN @ - 1 ELSE 0,
                              !.ctrl = <<0, 0>>],
                    "CONTROL", "in", <<0, 0>>))

\* lines 130-144: a poll of the Control register that reads PRACC clear
wait_for_pracc_rw_poll(s, ms) ==
    LET late(s1) == IF s1.el > PRACC_TIMEOUT_MS
                    THEN [s1 EXCEPT !.ret = ERROR_JTAG_DEVICE_ERROR, !.st = "ret",
                                    !.xret = IF s1.pos = "exec" THEN ERROR_JTAG_DEVICE_ERROR ELSE @,
                                    !.timeout = TRUE]
                    ELSE s1
    IN  late(DrScan([s EXCEPT !.cyc = IF s.polls = 0 THEN <<>> ELSE @, !.served = FALSE,
                              !.el = @ + ms, !.polls = @ + 1,
                              !.acc.delay = IF @ > 0 THEN @ - 1 ELSE 0,
                              !.ctrl = <<0, 0>>],
                    "CONTROL", "in", <<0, 0>>))

After(s) == IF s.st = "ret" THEN Returned(s) ELSE s

Blaster == <<info, tap, probe, tr, io, pc, ncmd>>

\* a transfer of more than MaxWords elements is the last call of its session
CanCall == px.pos = "idle" /\ px.ncall < MaxCalls /\ px.count0 <= MaxWords

\* the element sizes and counts of the calls of a session
MemCalls(s) ==
    IF s.tgt = "rogue" THEN {<<4, 1>>}
    ELSE ({1, 2, 4} \X (0..MaxWords))
         \cup (IF s.ncall = 0 THEN {<<4, BLOCK + 1>>, <<2, BLOCK + 1>>} ELSE {})

ReadMem ==
    /\ CanCall
    /\ \E c \in MemCalls(px) :
         px' = mips32_pracc_read_mem(Enter(px, "read_mem", MemAddr, c[1], c[2]))
    /\ UNCHANGED Blaster

WriteMem ==
    /\ CanCall
    /\ \E c \in MemCalls(px) :
         /\ c[2] <= MaxWords \/ c[1] = 4
         /\ px' = mips32_pracc_write_mem([Enter(px, "write_mem", MemAddr, c[1], c[2])
                                             EXCEPT !.buf = [i \in 1..c[2] |-> DataWord(i, c[1])]])
    /\ UNCHANGED Blaster

\* the register images the caller writes
RegImages == {[i \in 1..MIPS32NUMCOREREGS |-> <<1024 * k + i, 3 * i + k>>] : k \in 1..2}

WriteRegs ==
    /\ CanCall
    /\ \E regs \in RegImages :
         px' = mips32_pracc_write_regs(Enter(px, "write_regs", <<0, 0>>, 4, 0), regs)
    /\ UNCHANGED Blaster

ReadRegs ==
    /\ CanCall
    /\ px' = mips32_pracc_read_regs(Enter(px, "read_regs", <<0, 0>>, 4, 0))
    /\ UNCHANGED Blaster

WorkArea == <<32768, 4096>>

\* the work areas the caller passes; the second one in a transfer that
\* follows a transfer
WorkAreas == {WorkArea, <<32768, 8192>>}

FastdataXfer ==
    /\ CanCall
    /\ \E size \in {MIPS32_FASTDATA_HANDLER_SIZE \div 2, MIPS32_FASTDATA_HANDLER_SIZE},
          write_t \in {0, 1}, count \in 0..(MaxWords + 1), address \in WorkAreas :
         /\ px.tgt = "rogue" => count = 1
         /\ address # WorkArea =>
               /\ size = MIPS32_FASTDATA_HANDLER_SIZE /\ count = 1
               /\ px.tgt = "cpu" /\ px.op = "fastdata" /\ px.ret = ERROR_OK
         /\ px' = mips32_pracc_fastdata_xfer(
                   [Enter(px, "fastdata", MemAddr, 4, count)
                       EXCEPT !.fd = [address |-> address, size |-> size, write_t |-> write_t,
                                      addr |-> MemAddr, count |-> count, i |-> 0,
                                      buf |-> [i \in 1..count |-> DataWord(i, 4)],
                                      entry |-> Undef, exit |-> Undef]])
    /\ UNCHANGED Blaster

\* lines 248-308: mips32_pracc_exec called for a single access (cycle = 0)
\* or until the stub is fetched again, on a target of any behaviour
Exec ==
    /\ CanCall
    /\ px.tgt = "rogue"
    /\ \E cycle \in {0, 1} :
         px' = mips32_pracc_exec_enter(Enter(px, "exec", MemAddr, 4, 1), "read_u32",
                                       1, <<MemAddr>>, 1, <<Undef>>, 0, cycle)
    /\ UNCHANGED Blaster

Pending == px.acc.kind # "none" /\ px.acc.delay = 0

FdJump ==
    /\ px.pos = "fd_jmp"
    /\ Pending
    /\ \E nxt \in RogueNext(px) : px' = fastdata_jmp(px, nxt)
    /\ UNCHANGED Blaster

FdEntry ==
    /\ px.pos = "fd_entry"
    /\ Pending
    /\ \E nxt \in RogueNext(px) : px' = fastdata_entry(px, nxt)
    /\ UNCHANGED Blaster

FdExit ==
    /\ px.pos = "fd_exit"
    /\ Pending
    /\ px' = fastdata_exit(px)
    /\ UNCHANGED Blaster

Serve ==
    /\ px.pos = "exec"
    /\ Pending
    /\ \E junk \in JunkWords, nxt \in RogueNext(px) :
         px' = After(React(mips32_pracc_exec_pass(px, junk), nxt))
    /\ UNCHANGED Blaster

Poll ==
    /\ px.pos \in {"exec", "fd_jmp", "fd_entry", "fd_exit"}
    /\ ~Pending
    /\ \E ms \in PollMs : px' = After(wait_for_pracc_rw_poll(px, ms))
    /\ UNCHANGED Blaster

InitPracc ==
    /\ info = [pin6 |-> 0, pin8 |-> 0, tms |-> 0, tdi |-> 0, buf |-> <<>>, drv |-> FALSE]
    /\ tap = "RESET"
    /\ probe = [tap |-> "RESET", tck |-> 0, tms |-> 0, pending |-> 0]
    /\ tr = FullTransport
    /\ io = [cmd |-> NoCmd, out |-> <<>>, fl |-> <<>>, rd |-> <<>>, qb |-> <<>>,
             raw |-> <<>>, peak |-> 0, aborted |-> FALSE, buf0 |-> <<>>, tap0 |-> "RESET", probe0 |-> probe,
             bits |-> <<>>, ret |-> ERROR_OK]
    /\ pc = "config"
    /\ ncmd = 0
    /\ px \in {PxInit("cpu"), PxInit("rogue")}

NextPracc ==
    \/ ReadMem
    \/ WriteMem
    \/ WriteRegs
    \/ ReadRegs
    \/ FastdataXfer
    \/ Exec
    \/ Serve
    \/ FdJump
    \/ FdEntry
    \/ FdExit
    \/ Poll

SpecPracc == InitPracc /\ [][NextPracc]_vars

\* a session with a target that may stop asserting PRACC
InitDead == InitPracc /\ px.tgt = "rogue"

\* lines 130-144: the loop of wait_for_pracc_rw has no blocking call, so the
\* host goes on polling until PRACC is read set or the time is up
SpecPraccLive == InitDead /\ [][NextPracc]_vars /\ WF_vars(Poll)


(***************************************************************************)
(* Properties of the driver, stated on the trace of the last operation.    *)
(***************************************************************************)
QueueCmds == {"JTAG_RESET", "JTAG_RUNTEST", "JTAG_STABLECLOCKS", "JTAG_TLR_RESET",
              "JTAG_PATHMOVE", "JTAG_TMS", "JTAG_SCAN"}

ShiftCmds == {"JTAG_RUNTEST", "JTAG_STABLECLOCKS", "JTAG_SCAN"}

IsHdr(b) == b.k = "hdr"

IsPl(b) == b.k = "pl"

IsBitBang(b) == b.k \notin {"hdr", "pl"}

IsTdiHi(b) == b.k \in {"tdi_hi", "flip_hi"}

HasRead(b) == HasBit(b.v, READ)

IsReadHdr(b) == IsHdr(b) /\ HasRead(b)

IsReadBitBang(b) == IsBitBang(b) /\ HasRead(b)

RECURSIVE SumLen(_)
SumLen(hs) == IF hs = <<>> THEN 0 ELSE (Head(hs).v % 64) + SumLen(Tail(hs))

RECURSIVE SumNb(_)
SumNb(rs) == IF rs = <<>> THEN 0 ELSE Head(rs).nb + SumNb(Tail(rs))

BitBangOut == SelectSeq(io.out, IsBitBang)

\* C1: after every command handled by ublast_execute_queue and after
\* ublast_init, the last bit-bang byte the operation queued has TCK=0
\* (a scan that ends in IRPAUSE or DRPAUSE included).
C1_LastByteTckLow ==
    (io.cmd.type \in QueueCmds \cup {"init"} /\ BitBangOut # <<>>)
        => ~HasBit(BitBangOut[Len(BitBangOut)].v, TCK)

\* C2: after any sequence of commands the recorded TAP state is the state
\* the TAP reached by sampling the emitted TMS at every emitted TCK rising
\* edge, starting from the state ublast_init recorded.
C2_RecordedIsPhysical ==
    pc \in {"idle", "queue"} => tap = probe.tap

\* C3: after a scan, IR or DR, the recorded TAP state is cmd.end_state when
\* that is not DRSHIFT, and DRSHIFT when it is.
C3_ScanEndState ==
    io.cmd.type = "JTAG_SCAN" => tap = io.cmd.end_state

\* C4: when the transport accepts the bytes of a flush in parts, the bytes
\* it accepted are the buffered bytes, each once and in queue order.
C4_FlushSendsBuffer ==
    \A i \in DOMAIN io.fl :
        io.fl[i].ret = ERROR_OK => io.fl[i].sent = io.fl[i].data

\* the bytes one flush handed to the transport write function
HandedOf(f) == IF f.calls = <<>> THEN <<>> ELSE SubSeq(f.data, 1, f.calls[1].size)

RECURSIVE HandedUpTo(_, _)
HandedUpTo(fl, k) == IF k = 0 THEN <<>> ELSE HandedUpTo(fl, k - 1) \o HandedOf(fl[k])

\* C5: at every call of the transport read function the fill index is 0 and
\* every byte queued before it has been handed to the transport write
\* function.
C5_ReadsFollowFlush ==
    \A i \in DOMAIN io.rd :
        io.rd[i].calls # <<>> =>
            /\ io.rd[i].bufidx = 0
            /\ HandedUpTo(io.fl, io.rd[i].nfl) = io.buf0 \o SubSeq(io.out, 1, io.rd[i].nout)

C5_Witness ==
    /\ io.buf0 # <<>>
    /\ \E i \in DOMAIN io.rd : io.rd[i].fn = "byteshifted" /\ io.rd[i].calls # <<>>
    /\ \E i \in DOMAIN io.rd : io.rd[i].fn = "bitbang" /\ io.rd[i].nout > 0

\* C6: the fill index stays in [0, 64], it is 0 after every flush (a failed
\* write included), and no call of ublast_queue_bytes asks for more than the
\* buffer has left, so the overflow branch is never taken.
C6_BufferBounded ==
    /\ Len(info.buf) \in 0..BUF_LEN
    /\ io.peak <= BUF_LEN
    /\ \A i \in DOMAIN io.fl : io.fl[i].bufidx = 0
    /\ \A i \in DOMAIN io.qb : io.qb[i].bufidx + io.qb[i].nb_bytes <= BUF_LEN
    /\ ~io.aborted

C6_Witness ==
    /\ \E i \in DOMAIN io.fl : io.fl[i].ret # ERROR_OK /\ Len(io.fl[i].data) = BUF_LEN
    /\ \E i \in DOMAIN io.qb :
          io.qb[i].bufidx > 1 /\ io.qb[i].bufidx + io.qb[i].nb_bytes = BUF_LEN

\* C7: every byte-shift header carries a length between 1 and 63 in its low
\* six bits, whatever the fill level at the start of the shift.
C7_HeaderLengthInRange ==
    \A i \in DOMAIN io.out :
        IsHdr(io.out[i]) => (io.out[i].v % 64) \in 1..63

\* the bursts of a buffer: the N bytes after a header are its payload and
\* lie in the same buffer, the byte after them is not payload, and every
\* payload byte belongs to a header of the same buffer
BurstsWhole(d) ==
    /\ Len(d) <= BUF_LEN
    /\ \A p \in DOMAIN d :
          IsHdr(d[p]) =>
              /\ p + (d[p].v % 64) <= Len(d)
              /\ \A j \in 1..(d[p].v % 64) : IsPl(d[p + j])
              /\ p + (d[p].v % 64) + 1 <= Len(d) => ~IsPl(d[p + (d[p].v % 64) + 1])
    /\ \A q \in DOMAIN d :
          IsPl(d[q]) => \E p \in 1..(q - 1) : IsHdr(d[p]) /\ q - p <= d[p].v % 64

\* C8: a header and its N payload bytes are in the same flush of at most 64
\* bytes; no payload byte is in a later flush than its header.
C8_BurstInOneFlush ==
    /\ \A i \in DOMAIN io.fl : BurstsWhole(io.fl[i].data)
    /\ BurstsWhole(info.buf)

C8_Witness ==
    /\ Cardinality({i \in DOMAIN io.out : IsHdr(io.out[i]) /\ io.out[i].v % 64 >= 1}) >= 2
    /\ \E i \in DOMAIN io.fl : \E p \in DOMAIN io.fl[i].data :
          /\ p > 1
          /\ IsHdr(io.fl[i].data[p])
          /\ io.fl[i].data[p].v % 64 >= 1
          /\ p + (io.fl[i].data[p].v % 64) = Len(io.fl[i].data)

\* C9: in a reading direction the bytes asked from the transport are the
\* bytes the probe is asked to return: the lengths of the headers with READ
\* plus the bit-bang bytes with READ, one per byte-shifted byte and one per
\* bit-banged bit; no other queued byte has READ set.
C9_ReadCount ==
    (io.cmd.type = "JTAG_SCAN" /\ io.cmd.scan \in {"SCAN_IN", "SCAN_IO"}) =>
        /\ SumNb(io.rd) = SumLen(SelectSeq(io.out, IsReadHdr))
                          + Len(SelectSeq(io.out, IsReadBitBang))
        /\ SumNb(io.rd) = Len(SelectSeq(io.out, IsPl)) + Len(SelectSeq(io.out, IsTdiHi))
        /\ \A i \in DOMAIN io.out : IsReadBitBang(io.out[i]) => IsTdiHi(io.out[i])

C9_Witness ==
    /\ io.cmd.type = "JTAG_SCAN"
    /\ io.cmd.scan = "SCAN_IN"
    /\ Len(SelectSeq(io.out, IsReadHdr)) >= 1
    /\ Len(SelectSeq(io.out, IsReadBitBang)) = 8
    /\ Len(io.rd) >= 2

\* the TDI level of TCK cycle i (from 0) of the last shift
TdiOfCycle(pl, hi, i) ==
    IF i < 8 * Len(pl) THEN Bit(pl[(i \div 8) + 1].v, i % 8)
    ELSE IF HasBit(hi[i - 8 * Len(pl) + 1].v, TDI) THEN 1 ELSE 0

InputBit(i) ==
    IF io.cmd.hasbits THEN Bit(io.cmd.bits[(i \div 8) + 1], i % 8) ELSE 0

\* C10: a shift of n bits makes n TCK cycles, eight per byte of every burst
\* and one per bit-bang pulse, and the TDI level of cycle i is bit i of the
\* input buffer (LSB first), or 0 without an input buffer.
C10_ShiftCycles ==
    io.cmd.type \in ShiftCmds =>
        LET pl   == SelectSeq(io.out, IsPl)
            hi   == SelectSeq(io.out, IsTdiHi)
            hdrs == SelectSeq(io.out, IsHdr)
        IN  /\ 8 * SumLen(hdrs) + Len(hi) = io.cmd.num_bits
            /\ Len(pl) = SumLen(hdrs)
            /\ \A i \in DOMAIN io.out, j \in DOMAIN io.out :
                  IsPl(io.out[i]) /\ IsTdiHi(io.out[j]) => i < j
            /\ \A i \in 0..(io.cmd.num_bits - 1) : TdiOfCycle(pl, hi, i) = InputBit(i)

C10_Witness ==
    /\ io.cmd.type = "JTAG_SCAN"
    /\ io.cmd.num_bits = 16
    /\ io.cmd.scan = "SCAN_OUT"
    /\ Len(io.buf0) > 0
    /\ Len(SelectSeq(io.out, IsHdr)) = 1
    /\ Len(SelectSeq(io.out, IsTdiHi)) = 8

\* a transport write or read of the last operation returned an error
TransportError ==
    \/ \E i \in DOMAIN io.fl : io.fl[i].ret # ERROR_OK
    \/ \E i \in DOMAIN io.rd : io.rd[i].ret # ERROR_OK

\* C11: when a transport write of a flush or a transport read of a TDO
\* readback fails while ublast_execute_queue handles a command, the value
\* ublast_execute_queue is about to return is that error (so the loop
\* executes no further command).
C11_TransportErrorReturned ==
    (io.cmd.type \in QueueCmds \cup {"end"} /\ TransportError) => io.ret # ERROR_OK

\* C12: when the open succeeds ublast_init writes 128 zero bytes as two
\* writes of 64 bytes before any other byte, clocks five TMS=1 pulses and
\* records RESET; when the open fails it writes nothing, leaves the recorded
\* state unchanged and returns an error.
C12_InitFlushes128 ==
    io.cmd.type = "init" =>
        IF io.cmd.open_ok
        THEN /\ Len(io.raw) = 2
             /\ \A i \in DOMAIN io.raw :
                   io.raw[i].size = BUF_LEN /\ \A j \in 1..BUF_LEN : io.raw[i].data[j] = 0
             /\ io.fl = <<>>
             /\ Len(SelectSeq(io.out, IsTdiHi)) = 0
             /\ tap = "RESET"
        ELSE /\ io.raw = <<>>
             /\ io.out = <<>>
             /\ tap = io.tap0
             /\ io.ret # ERROR_OK


(***************************************************************************)
(* Properties of the processor access primitives.  Ran(ops) says that one  *)
(* of the primitives ops, called when the faithful target was about to     *)
(* fetch PRACC_TEXT, has returned.                                         *)
(***************************************************************************)
StubOps == {"read_u32", "read_mem32", "read_mem16", "read_mem8", "write_u32",
            "write_mem32", "write_mem16", "write_mem8", "read_regs", "write_regs"}

MemOps == StubOps \ {"read_regs", "write_regs"}

Ran(ops) == px.pos = "idle" /\ px.tgt = "cpu" /\ px.start /\ px.op \in ops

\* C13: for each of the ten stubs, run by a faithful target and served by
\* mips32_pracc_exec with cycle = 1, the stores to PRACC_STACK are as many
\* as the loads from it for every count, and the stack offset is 0 when
\* ERROR_OK is returned.
C13_StackBalanced ==
    Ran(StubOps) =>
        /\ px.pushes = px.pops
        /\ px.ret = ERROR_OK => px.stack_offset = 0

\* C14: after a memory primitive's stub has run to its trailing branch and
\* delay slot, every register $1..$31 of the target holds the value it had
\* before the stub started.
C14_RegistersPreserved ==
    (Ran(MemOps) /\ px.ret = ERROR_OK) => \A i \in 1..31 : px.cpu.r[i] = px.r0[i]

\* C15: mips32_pracc_read_mem32 of count >= 2 words returns in buf[i] the
\* memory word at addr + 4*i, in ceil(count / 0x400) stub executions, block
\* k reading from addr + 4*0x400*k into buf from index 0x400*k.
C15_ReadMem32Blocks ==
    (Ran({"read_mem32"}) /\ px.count0 >= 2) =>
        /\ px.ret = ERROR_OK
        /\ Len(px.buf) = px.count0
        /\ \A i \in 1..px.count0 : px.buf[i] = MemWord(px.cpu.mem, Add32(px.addr0, 4 * (i - 1)))
        /\ Len(px.execs) = DIV_ROUND_UP(px.count0, BLOCK)
        /\ \A k \in DOMAIN px.execs :
             /\ px.execs[k].param_in[1] = Add32(px.addr0, 4 * BLOCK * (k - 1))
             /\ px.execs[k].obase = BLOCK * (k - 1)

\* C16: read_regs after write_regs of an image r returns o[i] = r[i] for
\* the registers 1..31 and for status, lo, hi, badvaddr, cause and depc,
\* and o[0] = 0; read_regs leaves all those registers of the target
\* unchanged.
C16_RegsRoundTrip ==
    Ran({"read_regs"}) =>
        /\ px.ret = ERROR_OK
        /\ px.cpu.r = px.r0
        /\ px.cpu.hi = px.s0.hi /\ px.cpu.lo = px.s0.lo
        /\ \A k \in {8, 12, 13, 24} : px.cpu.c0[k] = px.s0.c0[k]
        /\ px.wrote # <<>> =>
             /\ Len(px.buf) = MIPS32NUMCOREREGS
             /\ px.buf[1] = <<0, 0>>
             /\ \A i \in 2..MIPS32NUMCOREREGS : px.buf[i] = px.wrote[i]

C16_Witness ==
    /\ Ran({"read_regs"})
    /\ px.wrote \in RegImages
    /\ px.buf[MIPS32NUMCOREREGS] = px.wrote[MIPS32NUMCOREREGS]
    /\ px.cpu.c0[24] = px.wrote[MIPS32NUMCOREREGS]

Waiting == px.pos = "exec" /\ px.acc.kind = "none" /\ ~px.timeout

\* C17: when the target never asserts PRACC, wait_for_pracc_rw gives up
\* after more than 1000 ms and mips32_pracc_exec returns
\* ERROR_JTAG_DEVICE_ERROR with no scan of the Address or Data register
\* and the parameter arrays as they were; a poll that reads PRACC set ends
\* the wait with that sample of the Control register.
C17_PraccTimeout ==
    /\ Waiting ~> (px.timeout /\ px.xret = ERROR_JTAG_DEVICE_ERROR)
    /\ [][(px'.timeout /\ ~px.timeout) =>
             /\ px.pos = "exec" => px'.xret = ERROR_JTAG_DEVICE_ERROR
             /\ px'.ret = ERROR_JTAG_DEVICE_ERROR \/ (px.op = "fastdata" /\ px.pos = "exec")
             /\ \E ms \in PollMs : px.el + ms > PRACC_TIMEOUT_MS
             /\ \A i \in DOMAIN px'.cyc : px'.cyc[i].dr = "CONTROL"
             /\ px'.scans["ADDRESS"] = px.scans["ADDRESS"]
             /\ px'.scans["DATA"] = px.scans["DATA"]
             /\ px'.iparam = px.iparam /\ px'.oparam = px.oparam]_vars
    /\ [][(px.pos = "exec" /\ px.acc.kind # "none" /\ px.acc.delay = 0) =>
             /\ px'.ctrl = Ctrl(px.acc) /\ px'.ctrl[2] = 1
             /\ ~px'.timeout
             /\ px'.scans["ADDRESS"] = px.scans["ADDRESS"] + 1]_vars

C17_Witness ==
    /\ px.pos = "idle" /\ px.timeout /\ px.polls > 1
    /\ px.ret = ERROR_JTAG_DEVICE_ERROR
    /\ px.scans["ADDRESS"] > 0

\* the address is in none of the arenas (the closed intervals of the text,
\* the input and the output parameters) and is not PRACC_STACK
OutOfArenas(s) ==
    /\ ~InArena(s.acc.addr, MIPS32_PRACC_PARAM_IN, s.num_iparam)
    /\ ~InArena(s.acc.addr, MIPS32_PRACC_PARAM_OUT, s.num_oparam)
    /\ ~InArena(s.acc.addr, MIPS32_PRACC_TEXT, Len(CodeOf(s.code)))
    /\ s.acc.addr # MIPS32_PRACC_STACK

\* C18: an access of the target to an address in none of the arenas and
\* other than PRACC_STACK makes mips32_pracc_exec return
\* ERROR_JTAG_DEVICE_ERROR in that pass, with the input array, the output
\* array and the stack offset unchanged and, for a read, no scan of the
\* Data register.
C18_OutOfArena ==
    [][(px.pos = "exec" /\ px.acc.kind # "none" /\ px.acc.delay = 0 /\ OutOfArenas(px)) =>
          /\ px'.xret = ERROR_JTAG_DEVICE_ERROR
          /\ px'.bad
          /\ px'.iparam = px.iparam /\ px'.oparam = px.oparam
          /\ px'.stack_offset = px.stack_offset
          /\ px.acc.kind # "store" => px'.scans["DATA"] = px.scans["DATA"]]_vars

C18_Witness ==
    /\ px.tgt = "rogue" /\ px.bad /\ px.pos = "idle"
    /\ px.xret = ERROR_JTAG_DEVICE_ERROR
    /\ px.scans["DATA"] = 1 /\ px.scans["ADDRESS"] = 2
    /\ px.acc.kind = "load"

\* C19: with a work area smaller than the handler,
\* mips32_pracc_fastdata_xfer returns ERROR_TARGET_RESOURCE_NOT_AVAILABLE
\* before any scan or stub execution and leaves the cached direction
\* unchanged, for every direction and count.
C19_SmallWorkArea ==
    (px.pos = "idle" /\ px.op = "fastdata" /\ px.fd.size < MIPS32_FASTDATA_HANDLER_SIZE) =>
        /\ px.ret = ERROR_TARGET_RESOURCE_NOT_AVAILABLE
        /\ \A d \in DRs : px.scans[d] = 0
        /\ px.execs = <<>>
        /\ px.fast_access_save = px.fas0

C19_Witness ==
    /\ px.pos = "idle" /\ px.op = "fastdata" /\ px.fd.size < MIPS32_FASTDATA_HANDLER_SIZE
    /\ px.ret = ERROR_TARGET_RESOURCE_NOT_AVAILABLE
    /\ px.fd.write_t # px.fast_access_save
    /\ px.fd.count > 0

\* C20: in mips32_pracc_fastdata_xfer an address other than the FASTDATA
\* area after the jump stub gives ERROR_FAIL and no FASTDATA scan; an
\* address other than PRACC_TEXT after the last data word still gives
\* ERROR_OK.
C20_FastdataHandshake ==
    (px.pos = "idle" /\ px.op = "fastdata") =>
        /\ px.fd.entry \notin {Undef, MIPS32_PRACC_FASTDATA_AREA} =>
             px.ret = ERROR_FAIL /\ px.scans["FASTDATA"] = 0
        /\ px.fd.exit \notin {Undef, MIPS32_PRACC_TEXT} => px.ret = ERROR_OK

C20_Witness ==
    /\ px.pos = "idle" /\ px.op = "fastdata"
    /\ px.fd.entry = MIPS32_PRACC_TEXT
    /\ px.ret = ERROR_FAIL
    /\ px.scans["DATA"] >= Len(jmp_code)

C20_ExitWitness ==
    /\ px.pos = "idle" /\ px.op = "fastdata"
    /\ px.fd.exit \notin {Undef, MIPS32_PRACC_TEXT}
    /\ px.scans["FASTDATA"] = 2 + px.fd.count

\* C21: word reads and word writes go in blocks of at most 0x400 elements:
\* no stub execution started by mips32_pracc_read_mem32 or
\* mips32_pracc_write_mem32 moves more than 0x400 data words, whatever the
\* count.  A read execution moves the words of its output array, a write
\* execution the words the target stores to its memory.
C21_WordBlocks ==
    /\ \A k \in DOMAIN px.execs :
          px.execs[k].code = "read_mem32" => px.execs[k].num_param_out <= BLOCK
    /\ (px.tgt = "cpu" /\ px.op = "write_mem32") => Len(px.cpu.stores) <= BLOCK

\* C22: mips32_pracc_read_mem16 and mips32_pracc_read_mem8 run the stub once
\* with the full count in param_in[1], so every element copied to the
\* caller's buffer was written by the target in that execution, for counts
\* above 0x400 too.
C22_SmallReadFullCount ==
    (Ran({"read_mem16", "read_mem8"}) /\ px.ret = ERROR_OK) =>
        /\ Len(px.execs) = 1
        /\ px.execs[1].param_in[2] = ToWord(px.count0)
        /\ Len(px.buf) = px.count0
        /\ \A i \in 1..px.count0 : px.buf[i] # Undef

(***************************************************************************)
(* Properties of the driver: empty shifts, pins, headers, readback.        *)
(***************************************************************************)
\* a queued byte that raises TCK: a bit-bang byte with the TCK bit
IsTckHigh(b) == IsBitBang(b) /\ HasBit(b.v, TCK)

\* C23: runtest(0, end) and stable_clocks(0) are no-ops, and so is a shift
\* of 0 bits: no TCK rising edge is emitted (no bit-bang byte with TCK set,
\* no byte-shift burst) and the recorded TAP state is unchanged, from every
\* starting state and for every end state; the shift of a scan of 0 bits
\* clocks no data bit.
C23_ZeroIsNoOp ==
    /\ (io.cmd.type \in {"JTAG_RUNTEST", "JTAG_STABLECLOCKS"} /\ io.cmd.num_bits = 0) =>
          /\ \A i \in DOMAIN io.out : ~IsTckHigh(io.out[i]) /\ ~IsHdr(io.out[i])
          /\ tap = io.tap0
    /\ (io.cmd.type = "JTAG_SCAN" /\ io.cmd.num_bits = 0) =>
          \A i \in DOMAIN io.out : ~IsTdiHi(io.out[i]) /\ ~IsHdr(io.out[i])

\* the transport of the session has been opened: ublast_init has returned
\* ERROR_OK
Opened == pc # "config"

\* C24: a pin command with pin6 or pin8 and level 0 or 1 records the level
\* and returns ERROR_OK; any other name or level returns a syntax error and
\* changes no pin level; and in a session of ublast_init attempts and pin
\* commands no transport write is attempted while the transport has not
\* been opened.
C24_PinCommand ==
    /\ io.cmd.type = "pin" =>
          IF io.cmd.pin_name \in {"pin6", "pin8"} /\ io.cmd.state \in {0, 1}
          THEN /\ io.ret = ERROR_OK
               /\ (IF io.cmd.pin_name = "pin6" THEN info.pin6 ELSE info.pin8) = io.cmd.state
          ELSE /\ io.ret = ERROR_COMMAND_SYNTAX_ERROR
               /\ io.out = <<>>
    /\ ~Opened =>
          /\ io.raw = <<>>
          /\ \A i \in DOMAIN io.fl : io.fl[i].calls = <<>>

\* the TCK level the probe has been left at when byte i of the operation is
\* queued: that of the most recent bit-bang byte, of this operation or of
\* an earlier one
TckBefore(i) ==
    LET bb(n) == {j \in 1..(n - 1) : IsBitBang(io.out[j])}
        last(js) == CHOOSE j \in js : \A k \in js : k <= j
    IN  IF bb(i) = {} THEN io.probe0.tck ELSE io.out[last(bb(i))].v % 2

\* C25: in any sequence of driver commands every byte-shift header is
\* queued when the most recent bit-bang byte has TCK=0.
C25_HeaderAtTckLow ==
    \A i \in DOMAIN io.out : IsHdr(io.out[i]) => TckBefore(i) = 0

IsFlipHi(b) == b.k = "flip_hi"

\* a byte that clocks data bits: a payload byte or the TCK-high byte of a pulse
IsData(b) == IsPl(b) \/ IsTdiHi(b)

\* the TMS level the probe clocks byte i of the operation with: that of the
\* byte itself for a bit-bang byte, and for a payload byte that of the most
\* recent bit-bang byte
TmsAt(i) ==
    LET bb(n) == {j \in 1..n : IsBitBang(io.out[j])}
        last(js) == CHOOSE j \in js : \A k \in js : k <= j
    IN  IF bb(i) = {} THEN io.probe0.tms ELSE (io.out[last(bb(i))].v \div TMS) % 2

\* the probe after the first n bytes of the operation
ProbeAfter(n) == ProbeRun(io.probe0, [j \in 1..n |-> io.out[j].v], 1)

\* C26: in a scan of n >= 1 bits whose end state is not DRSHIFT the final
\* data bit is a bit-bang pulse with TMS=1 on its TCK-high byte and the
\* n-1 data bits before it are clocked with TMS=0, so the TAP is in Shift
\* up to the n-th data bit and in Exit1 after it.
C26_LastBitLeavesShift ==
    (io.cmd.type = "JTAG_SCAN" /\ io.cmd.num_bits >= 1 /\ io.cmd.end_state # "DRSHIFT") =>
        \E f \in DOMAIN io.out :
            /\ IsFlipHi(io.out[f])
            /\ HasBit(io.out[f].v, TMS)
            /\ \A i \in DOMAIN io.out : IsData(io.out[i]) => i <= f
            /\ \A i \in 1..(f - 1) : IsData(io.out[i]) => TmsAt(i) = 0
            /\ ProbeAfter(f - 1).tap \in {"DRSHIFT", "IRSHIFT"}
            /\ ProbeAfter(f).tap \in {"DREXIT1", "IREXIT1"}

\* C27: after a byte-shift burst of N bytes with READ the N bytes stored by
\* ublast_read_byteshifted_tdos are the N bytes the probe returned, in
\* arrival order, however the transport splits them across read calls.
C27_ByteshiftedVerbatim ==
    \A i \in DOMAIN io.rd :
        (io.rd[i].fn = "byteshifted" /\ io.rd[i].ret = ERROR_OK) =>
            \A j \in 1..io.rd[i].nb : io.rd[i].data[j] = TdoByte(io.rd[i].first + j - 1)

\* C28: after a bit-bang read of nb1 bits, bit i of the byte stored by
\* ublast_read_bitbang_tdos is the least significant bit of the i-th byte
\* the probe returned, for every i < nb1, however the transport splits the
\* nb1 bytes across read calls.
C28_BitBangPacked ==
    \A i \in DOMAIN io.rd :
        (io.rd[i].fn = "bitbang" /\ io.rd[i].ret = ERROR_OK) =>
            \A b \in 0..(io.rd[i].nb - 1) :
                Bit(io.rd[i].byte, b) = TdoByte(io.rd[i].first + b) % 2

IsTmsHi(b) == b.k = "tms_hi"

\* C29: state_move(RESET), in any state the driver commands reach (after a
\* reset command with trst=1 and with RESET already recorded included),
\* queues the TMS=1 pulses of the oracle's path, then one idle byte, and
\* leaves the recorded and the physical TAP state at RESET.
C29_StateMoveReset ==
    (io.cmd.type = "JTAG_TLR_RESET" /\ io.cmd.end_state = "RESET") =>
        /\ Len(io.out) = 2 * tap_get_tms_path_len(io.tap0, "RESET") + 1
        /\ \A i \in DOMAIN io.out : IsTmsHi(io.out[i]) => HasBit(io.out[i].v, TMS)
        /\ io.out # <<>> => io.out[Len(io.out)].k = "idle"
        /\ tap = "RESET"
        /\ probe.tap = "RESET"

\* C30: tms_sequence(bits, n) queues 2n+1 bit-bang bytes, a TCK-low and a
\* TCK-high byte per transition and one TCK-low byte at the end; transition
\* k carries bit k of bits (LSB first) as TMS; and the TDI level of all of
\* them is the TDI level of the byte queued last before the call.
C30_TmsSequence ==
    io.cmd.type = "JTAG_TMS" =>
        /\ Len(io.out) = 2 * io.cmd.num_bits + 1
        /\ \A i \in DOMAIN io.out : IsBitBang(io.out[i])
        /\ \A k \in 0..(io.cmd.num_bits - 1) :
              /\ ~HasBit(io.out[2 * k + 1].v, TCK)
              /\ HasBit(io.out[2 * k + 2].v, TCK)
              /\ \A j \in {2 * k + 1, 2 * k + 2} :
                    HasBit(io.out[j].v, TMS) = (Bit(io.cmd.bits[(k \div 8) + 1], k % 8) = 1)
        /\ ~HasBit(io.out[Len(io.out)].v, TCK)
        /\ io.buf0 # <<>> =>
              \A i \in DOMAIN io.out :
                  HasBit(io.out[i].v, TDI) = HasBit(io.buf0[Len(io.buf0)].v, TDI)

(***************************************************************************)
(* Properties of the processor-access loop and of the FASTDATA transfer.   *)
(***************************************************************************)
\* the access the target has pending is a read of the first word of the
\* stub after an earlier read of it in this call of mips32_pracc_exec
SecondFetch(s) ==
    /\ s.acc.kind # "store"
    /\ s.acc.addr = MIPS32_PRACC_TEXT
    /\ s.pass >= 1

\* the scans of the Control register that clear PRACC in the last pass
ClearScans(s) == {i \in DOMAIN s.cyc : s.cyc[i].dr = "CONTROL" /\ s.cyc[i].dir = "out"}

\* C31: with cycle # 0, mips32_pracc_exec returns ERROR_OK exactly in the
\* pass that observes the second read of PRACC_TEXT; that fetch is not
\* served (no scan of the Data register, PRACC not cleared, the access
\* still pending); every other access that is accepted is served once, in
\* the pass that observed it; a write never counts as a fetch and never
\* ends the call with ERROR_OK; with cycle = 0 the call returns after the
\* pass of one access.
C31_ExecExit ==
    [][(px.pos = "exec" /\ px.acc.kind # "none" /\ px.acc.delay = 0) =>
          LET ok == px'.xret = ERROR_OK \/ Len(px'.execs) > Len(px.execs)
              once == /\ px'.scans["DATA"] = px.scans["DATA"] + 1
                      /\ Cardinality(ClearScans(px')) = 1
                      /\ px'.served
          IN  /\ px'.scans["ADDRESS"] = px.scans["ADDRESS"] + 1
              /\ px.cycle # 0 =>
                   /\ ok <=> SecondFetch(px)
                   /\ SecondFetch(px) =>
                        /\ px'.scans["DATA"] = px.scans["DATA"]
                        /\ ClearScans(px') = {}
                        /\ ~px'.served
                        /\ px'.acc = px.acc
                   /\ (~SecondFetch(px) /\ px'.xret = "pending") => once
                   /\ px.acc.kind = "store" => px'.pass = px.pass /\ ~ok
              /\ px.cycle = 0 =>
                   /\ px'.pos = "idle" /\ px'.xret = px'.ret
                   /\ px'.scans["ADDRESS"] = 1
                   /\ px'.ret = ERROR_OK => once]_vars

C31_Witness ==
    /\ px.pos = "idle" /\ px.tgt = "cpu" /\ px.op = "read_u32"
    /\ px.xret = ERROR_OK /\ px.ret = ERROR_OK
    /\ px.pass = 2 /\ px.pushes > 0
    /\ ~px.served /\ ClearScans(px) = {}
    /\ px.acc.kind = "fetch" /\ px.acc.addr = MIPS32_PRACC_TEXT

\* the slot of the output array an address of its arena stands for
OutSlot(s) == Diff32(s.acc.addr, MIPS32_PRACC_PARAM_OUT) \div 4

\* C32: within one call of mips32_pracc_exec a store of the target to an
\* output slot puts the word in that slot and a later load from the slot
\* returns the word the slot holds; a load from PRACC_STACK returns the
\* word of the latest store to PRACC_STACK that no load has returned yet,
\* and a store to PRACC_STACK leaves the earlier words in place.
C32_StoreThenLoad ==
    [][(px.pos = "exec" /\ px.acc.kind # "none" /\ px.acc.delay = 0) =>
          /\ (px.acc.addr = MIPS32_PRACC_STACK /\ px.acc.kind = "load") =>
                /\ px.pushes > px.pops
                /\ px.stack_offset \in 1..STACK_SIZE
                /\ px'.data = px.stack[px.stack_offset]
                /\ px'.stack = px.stack
                /\ px'.stack_offset = px.stack_offset - 1
          /\ (px.acc.addr = MIPS32_PRACC_STACK /\ px.acc.kind = "store") =>
                /\ px.stack_offset \in 0..(STACK_SIZE - 1)
                /\ px'.stack = [px.stack EXCEPT ![px.stack_offset + 1] = px.acc.data]
                /\ px'.stack_offset = px.stack_offset + 1
          /\ (InArena(px.acc.addr, MIPS32_PRACC_PARAM_OUT, px.num_oparam - 1)
                 /\ px.num_oparam > 0 /\ px.acc.kind = "store") =>
                /\ px'.oparam[px.obase + OutSlot(px) + 1] = px.acc.data
                /\ \A i \in DOMAIN px.oparam :
                      i # px.obase + OutSlot(px) + 1 => px'.oparam[i] = px.oparam[i]
          /\ (InArena(px.acc.addr, MIPS32_PRACC_PARAM_OUT, px.num_oparam - 1)
                 /\ px.num_oparam > 0 /\ px.acc.kind = "load") =>
                /\ px'.data = px.oparam[px.obase + OutSlot(px) + 1]
                /\ px'.oparam = px.oparam]_vars

\* the transfer got past the test of the size of the work area
FdAccepted(s) == s.op = "fastdata" /\ s.fd.size >= MIPS32_FASTDATA_HANDLER_SIZE

\* C33: mips32_pracc_fastdata_xfer runs mips32_pracc_write_mem32 with the
\* handler exactly when the requested direction differs from the cached
\* one, the cached direction is the requested one from the upload step on,
\* and a transfer in the direction of the transfer before it uploads
\* nothing.
C33_UploadOnChange ==
    /\ [](FdAccepted(px) =>
            /\ px.uploads = (IF px.fd.write_t # px.fas0 THEN 1 ELSE 0)
            /\ Len(px.execs) = px.uploads
            /\ px.uploads = 1 =>
                 /\ px.execs[1].code = "write_mem32"
                 /\ px.execs[1].param_in[1] = px.fd.address
                 /\ SubSeq(px.execs[1].param_in, 3, Len(px.execs[1].param_in))
                       = handler_code_for(px.fd.write_t)
            /\ px.fast_access_save = px.fd.write_t)
    /\ [][(/\ px.pos = "idle" /\ FdAccepted(px)
           /\ px'.ncall = px.ncall + 1 /\ FdAccepted(px')
           /\ px'.fd.write_t = px.fd.write_t) =>
              px'.uploads = 0 /\ px'.execs = <<>> /\ px'.pos = "fd_jmp"]_vars

C33_Witness ==
    /\ px.pos = "idle" /\ FdAccepted(px) /\ px.tgt = "cpu"
    /\ px.ncall = 2 /\ px.ret = ERROR_OK
    /\ px.fas0 = 1 /\ px.fd.write_t = 1 /\ px.uploads = 0
    /\ px.fd.count = 1 /\ px.scans["FASTDATA"] = 3

\* the work area of the transfer holds the handler patched for its direction
HandlerResident(s) ==
    \A i \in 1..Len(handler_code) :
       MemWord(s.cpu.mem, Add32(s.fd.address, 4 * (i - 1))) = handler_code_for(s.fd.write_t)[i]

IsFastdataScan(e) == e.dr = "FASTDATA"

\* the stores of the target to its memory outside the work areas
IsDataStore(a) ==
    \A w \in WorkAreas : ~(Le32(w, a) /\ Le32(a, Add32(w, MIPS32_FASTDATA_HANDLER_SIZE - 1)))

\* C34: for a count of at least 1 mips32_pracc_fastdata_xfer makes 2 + count
\* FASTDATA scans, the start address, then the address of the last
\* element, both outbound, then count scans in the requested direction,
\* and the handler for that direction, resident in the work area of a
\* faithful target, transfers the count elements at addr, addr + 4, ...
\* and is back at PRACC_TEXT when the host has made its last scan.
C34_FastdataScans ==
    (/\ px.pos = "fd_exit" /\ px.polls = 0 /\ px.tgt = "cpu" /\ px.start /\ px.fd.count >= 1
     /\ HandlerResident(px)) =>
        LET f == SelectSeq(px.cyc, IsFastdataScan)
            at(i) == Add32(px.fd.addr, 4 * (i - 1))
        IN  /\ px.scans["FASTDATA"] = 2 + px.fd.count
            /\ Len(f) = 2 + px.fd.count
            /\ f[1] = [dr |-> "FASTDATA", dir |-> "out", val |-> px.fd.addr]
            /\ f[2] = [dr |-> "FASTDATA", dir |-> "out", val |-> at(px.fd.count)]
            /\ \A i \in 1..px.fd.count :
                  f[2 + i].dir = (IF px.fd.write_t # 0 THEN "out" ELSE "in")
            /\ px.fd.write_t # 0 =>
                  /\ SelectSeq(px.cpu.stores, IsDataStore) = [i \in 1..px.fd.count |-> at(i)]
                  /\ \A i \in 1..px.fd.count :
                        /\ f[2 + i].val = px.fd.buf[i]
                        /\ MemWord(px.cpu.mem, at(i)) = px.fd.buf[i]
                  /\ px.cpu.loads = 4
            /\ px.fd.write_t = 0 =>
                  /\ px.buf = [i \in 1..px.fd.count |-> MemWord(px.cpu.mem, at(i))]
                  /\ SelectSeq(px.cpu.stores, IsDataStore) = <<>>
                  /\ px.cpu.loads = 4 + px.fd.count
            /\ px.acc.kind = "fetch" /\ px.acc.addr = MIPS32_PRACC_TEXT

C34_Witness ==
    /\ px.pos = "fd_exit" /\ px.polls = 0 /\ px.tgt = "cpu" /\ px.start
    /\ HandlerResident(px)
    /\ px.fd.count = 2 /\ px.fd.write_t = 1
    /\ px.scans["FASTDATA"] = 4
    /\ MemWord(px.cpu.mem, Add32(px.fd.addr, 4)) = px.fd.buf[2]
    /\ px.acc.addr = MIPS32_PRACC_TEXT

\* C35: whenever mips32_pracc_fastdata_xfer sends the jump stub, the work
\* area at source->address of a faithful target holds the handler patched
\* for the requested direction, whatever the directions and work areas of
\* the transfers before; and when the upload by mips32_pracc_write_mem32
\* returns an error the transfer returns that error and sends no jump stub.
C35_HandlerResident ==
    /\ (px.op = "fastdata" /\ px.pos = "fd_jmp" /\ px.tgt = "cpu" /\ px.start) =>
          HandlerResident(px)
    /\ (px.op = "fastdata" /\ px.uploads = 1 /\ px.xret \notin {ERROR_OK, "pending"}) =>
          /\ px.pos = "idle"
          /\ px.ret = px.xret
          /\ px.fd.i = 0

\* the address stands for one of the num elements of the array at base
InArray(address, base, num) == Le32(base, address) /\ Diff32(address, base) \div 4 < num

\* C36: an access that mips32_pracc_exec_read or mips32_pracc_exec_write
\* serves from or into the input array, the output array or the code uses
\* an index below num_iparam, num_oparam or code_len: an access the pass
\* accepts at another address than PRACC_STACK lies within one of the
\* arrays, and none is accepted in an array of no element.
C36_IndexBelowCount ==
    [][(/\ px.pos = "exec" /\ px.acc.kind # "none" /\ px.acc.delay = 0
        /\ ~SecondFetch(px) /\ px.acc.addr # MIPS32_PRACC_STACK
        /\ px'.served /\ ~px'.bad) =>
           \/ InArray(px.acc.addr, MIPS32_PRACC_PARAM_IN, px.num_iparam)
           \/ InArray(px.acc.addr, MIPS32_PRACC_PARAM_OUT, px.num_oparam)
           \/ px.acc.kind # "store" /\ InArray(px.acc.addr, MIPS32_PRACC_TEXT, Len(CodeOf(px.code)))]_vars

\* C37: whatever loads and stores the target makes at PRACC_STACK,
\* stack_offset stays within 0..32 and every access uses a slot in 0..31:
\* a load with the stack empty and a store with the stack full make the
\* pass return an error and leave the offset alone.
C37_StackBounds ==
    /\ [](px.stack_offset \in 0..STACK_SIZE)
    /\ [][(/\ px.pos = "exec" /\ px.acc.kind # "none" /\ px.acc.delay = 0
           /\ px.acc.addr = MIPS32_PRACC_STACK
           /\ \/ px.acc.kind = "load" /\ px.stack_offset = 0
              \/ px.acc.kind = "store" /\ px.stack_offset = STACK_SIZE) =>
              /\ px'.xret \notin {ERROR_OK, "pending"}
              /\ px'.stack_offset = px.stack_offset]_vars

\* C38: the write_mem32 stub started with in[0] = addr and
\* in[1] = addr + 4 * count makes exactly count stores to the memory of the
\* target, at addr, addr + 4, ..., and then branches back to PRACC_TEXT;
\* with count 0 it stores nothing and reads no input word after in[1].
C38_WriteMem32Stores ==
    /\ (px.pos = "idle" /\ px.op = "write_mem32" /\ px.tgt = "cpu" /\ px.start) =>
          /\ px.cpu.stores = [i \in 1..px.count0 |-> Add32(px.addr0, 4 * (i - 1))]
          /\ px.ret = ERROR_OK /\ ~px.oob /\ ~px.bad
          /\ px.acc.kind = "fetch" /\ px.acc.addr = MIPS32_PRACC_TEXT
    /\ (/\ px.pos = "fd_jmp" /\ px.op = "fastdata" /\ px.fd.i = 0 /\ px.uploads = 1
        /\ px.tgt = "cpu" /\ px.start) =>
          /\ px.cpu.stores = [i \in 1..Len(handler_code) |-> Add32(px.fd.address, 4 * (i - 1))]
          /\ px.xret = ERROR_OK /\ ~px.oob

(***************************************************************************)
(* Properties of the driver: what has reached the transport.               *)
(***************************************************************************)
\* C39: in ublast_execute_queue a JTAG_SLEEP that follows a command of the
\* same queue that queued bytes starts with the write buffer empty: those
\* bytes have been written to the transport before the host sleeps.
C39_SleepAfterFlush ==
    [][(/\ pc = "queue" /\ io.out # <<>>
        /\ io'.cmd.type = "JTAG_SLEEP" /\ ncmd' = ncmd + 1) =>
           info'.buf = <<>>]_vars

\* C40: when ublast_init, ublast_execute_queue or the pin command has
\* returned ERROR_OK the write buffer is empty, so that the zero byte of
\* ublast_quit is written after every byte queued before it, the five
\* reset pulses of ublast_init among them.
C40_BufferEmptyOnReturn ==
    /\ (io.cmd.type \in {"init", "end", "pin"} /\ io.ret = ERROR_OK /\ pc = "idle") =>
          info.buf = <<>>
    /\ (io.cmd.type = "quit" /\ io.raw # <<>>) => info.buf = <<>>

====
